---- MODULE Spec2Model ----
(***************************************************************************)
(* A model of simple_compiler: the recursive-descent Parser, the constant  *)
(* folding Optimizer, the CodeGenerator with label back-patching, and the  *)
(* stack VirtualMachine, chained as main() chains them.                    *)
(*                                                                         *)
(* Conventions.  A Rust Option is a sequence of length 0 (None) or 1       *)
(* (Some).  A HashMap is a function whose DOMAIN is its key set.  Vec      *)
(* indices are 0-based in the source, so element i of a Vec v is v[i + 1]. *)
(* A Result/panic is a record with a kind field.  i64 is modelled as a     *)
(* two's-complement integer of WordBits bits.                              *)
(***************************************************************************)
EXTENDS Integers, Sequences, FiniteSets

VARIABLES
    entry,                \* which public entry point this run exercises
    pc,                   \* position in the pipeline of main()
    overflow_checks,      \* build profile: TRUE = debug (overflow panics), FALSE = release (wraps)
    tokens,               \* Parser.tokens
    ast,                  \* the Program returned by Parser::parse (Option)
    optimized,            \* the Program returned by Optimizer::optimize_ast (Option)
    instructions,         \* VirtualMachine.instructions
    stack,                \* VirtualMachine.stack
    variables,            \* VirtualMachine.variables (the global table)
    instruction_pointer,  \* VirtualMachine.instruction_pointer
    call_stack,           \* VirtualMachine.call_stack
    stack_frames,         \* VirtualMachine.stack_frames
    functions,            \* VirtualMachine.functions
    output,               \* the lines println! has written, in order
    failure,              \* why the process stopped abnormally (Option)
    history               \* observation only: what the VM has executed so far

vars == <<entry, pc, overflow_checks, tokens, ast, optimized, instructions, stack,
          variables, instruction_pointer, call_stack, stack_frames, functions,
          output, failure, history>>

-----------------------------------------------------------------------------
(* Bounds of the model *)

\* i64 is modelled with this many bits
WordBits == 7
\* largest argument of the recursive sample programs
MaxK == 3
\* most binary operators in an enumerated operator chain
MaxOps == 3
\* depth of the native call stack at which the process overflows its stack
StackLimit == 24
\* longest instruction sequence handed directly to VirtualMachine::new
MaxRawLen == 2
\* most frames the model lets stack_frames hold (memory is finite)
MaxFrames == 6

MaxInt == 2 ^ (WordBits - 1) - 1
MinInt == 0 - 2 ^ (WordBits - 1)

None == <<>>
Some(x) == <<x>>

-----------------------------------------------------------------------------
(* lexer.rs: the Token type *)

Tok(t) == [t |-> t]
TInteger(n) == [t |-> "Integer", v |-> n]
TIdentifier(s) == [t |-> "Identifier", v |-> s]
EOF == [t |-> "EOF"]

-----------------------------------------------------------------------------
(* parser.rs: the syntax tree *)

Integer(n) == [k |-> "Integer", v |-> n]
Identifier(s) == [k |-> "Identifier", name |-> s]
FunctionCall(name, arguments) ==
    [k |-> "FunctionCall", name |-> name, arguments |-> arguments]
ArithmeticExpression(left, operator, right) ==
    [k |-> "ArithmeticExpression", left |-> left, operator |-> operator, right |-> right]

VariableDeclaration(identifier, value) ==
    [k |-> "VariableDeclaration", identifier |-> identifier, value |-> value]
Assignment(identifier, value) ==
    [k |-> "Assignment", identifier |-> identifier, value |-> value]
FunctionDeclaration(name, parameters, return_type, body) ==
    [k |-> "FunctionDeclaration", name |-> name, parameters |-> parameters,
     return_type |-> return_type, body |-> body]
StatementFunctionCall(expr) == [k |-> "StatementFunctionCall", expr |-> expr]
StatementPrint(expr) == [k |-> "Print", expr |-> expr]
IfStatement(condition, then_block, else_block) ==
    [k |-> "IfStatement", condition |-> condition, then_block |-> then_block,
     else_block |-> else_block]
Block(statements, return_expression) ==
    [statements |-> statements, return_expression |-> return_expression]
Comparison(left, operator, right) ==
    [left |-> left, operator |-> operator, right |-> right]

-----------------------------------------------------------------------------
(* parser.rs: the Parser.  Every function takes the token Vec, the value of *)
(* self.pos on entry and the depth d of the native call stack, and returns  *)
(* Ok with the value of self.pos on exit, Err, or Crash when the recursion  *)
(* has exhausted the native stack.                                          *)

Ok(pos, val) == [kind |-> "ok", pos |-> pos, val |-> val, msg |-> <<>>]
Err(msg) == [kind |-> "err", pos |-> 0, val |-> None, msg |-> msg]
Crash == [kind |-> "crash", pos |-> 0, val |-> None, msg |-> <<"stack overflow">>]

peek(toks, pos) == IF pos < Len(toks) THEN toks[pos + 1] ELSE EOF
lookahead(toks, pos) == IF pos + 1 < Len(toks) THEN toks[pos + 2] ELSE EOF

TokenEq(token, expected) ==
    /\ token.t = expected.t
    /\ (expected.t \in {"Integer", "Identifier"} => token.v = expected.v)

expect(toks, pos, expected) ==
    IF peek(toks, pos).t # "EOF"
    THEN IF TokenEq(peek(toks, pos), expected)
         THEN Ok(pos + 1, None)
         ELSE Err(<<"Expected", expected.t, "found", peek(toks, pos).t>>)
    ELSE Err(<<"Expected", expected.t, "found", "EOF">>)

get_identifier(toks, pos) ==
    IF peek(toks, pos).t = "Identifier"
    THEN Ok(pos + 1, peek(toks, pos).v)
    ELSE Err(<<"Expected function name">>)

peek_operator(toks, pos) ==
    CASE peek(toks, pos).t = "Plus" -> Some("Add")
      [] peek(toks, pos).t = "Minus" -> Some("Subtract")
      [] peek(toks, pos).t = "Multiply" -> Some("Multiply")
      [] peek(toks, pos).t = "Divide" -> Some("Divide")
      [] OTHER -> None

\* a precedence table that does not tell * and / from + and -
operator_precedence_flat(operator) == 1

operator_precedence(operator) ==
    IF operator \in {"Multiply", "Divide"} THEN 2 ELSE 1

\* the ? operator: an Err (or the crash) of r is the result of the caller,
\* an Ok is handed to the rest of the caller
Try(r, rest(_)) == IF r.kind # "ok" THEN r ELSE rest(r)

RECURSIVE parse_statement(_, _, _)
RECURSIVE parse_block(_, _, _)
RECURSIVE parse_block_loop(_, _, _, _)
RECURSIVE parse_expression(_, _, _)
RECURSIVE parse_term(_, _, _)
RECURSIVE parse_function_call_expression(_, _, _)
RECURSIVE parse_argument_list(_, _, _, _)
RECURSIVE parse_expression_with_precedence(_, _, _, _, _)

parse_expression_with_precedence(toks, pos, d, min_precedence, left) ==
    IF d > StackLimit THEN Crash
    ELSE LET operator == peek_operator(toks, pos) IN
    IF operator = None THEN Ok(pos, left)
    ELSE LET precedence == operator_precedence(operator[1]) IN
    IF precedence < min_precedence THEN Ok(pos, left)
    ELSE Try(parse_term(toks, pos + 1, d + 1), LAMBDA current_term :
         Try(parse_expression_with_precedence(
                 toks, current_term.pos, d + 1, precedence + 1, current_term.val),
             LAMBDA right :
                 parse_expression_with_precedence(
                     toks, right.pos, d, min_precedence,
                     ArithmeticExpression(left, operator[1], right.val))))

parse_arithmetic_expression(toks, pos, d, left) ==
    parse_expression_with_precedence(toks, pos, d + 1, 0, left)

parse_expression(toks, pos, d) ==
    IF d > StackLimit THEN Crash
    ELSE Try(parse_term(toks, pos, d + 1), LAMBDA left :
         IF peek(toks, left.pos).t \in {"Divide", "Minus", "Plus", "Multiply"}
         THEN parse_arithmetic_expression(toks, left.pos, d + 1, left.val)
         ELSE left)

parse_term(toks, pos, d) ==
    IF d > StackLimit THEN Crash
    ELSE LET token == peek(toks, pos) IN
    CASE token.t = "EOF" -> Err(<<"Unexpected end of input">>)
      [] token.t = "Integer" -> Ok(pos + 1, Integer(token.v))
      [] token.t = "Identifier" ->
            IF lookahead(toks, pos).t = "LeftParen"
            THEN parse_function_call_expression(toks, pos, d + 1)
            ELSE Ok(pos + 1, Identifier(token.v))
      [] token.t = "LeftParen" ->
            \* the parenthesis is peeked, never consumed, before the recursive call
            Try(parse_expression(toks, pos, d + 1), LAMBDA expr :
            Try(expect(toks, expr.pos, Tok("RightParen")), LAMBDA e :
            Ok(e.pos, expr.val)))
      [] OTHER -> Err(<<"Invalid term">>)

parse_argument_list(toks, pos, d, arguments) ==
    IF d > StackLimit THEN Crash
    ELSE IF peek(toks, pos).t \in {"EOF", "RightParen"} THEN Ok(pos, arguments)
    ELSE Try(parse_expression(toks, pos, d + 1), LAMBDA a :
         IF peek(toks, a.pos).t = "Comma"
         THEN parse_argument_list(toks, a.pos + 1, d, Append(arguments, a.val))
         ELSE Ok(a.pos, Append(arguments, a.val)))

parse_function_call_expression(toks, pos, d) ==
    IF d > StackLimit THEN Crash
    ELSE Try(get_identifier(toks, pos), LAMBDA name :
         Try(expect(toks, name.pos, Tok("LeftParen")), LAMBDA lp :
         Try(parse_argument_list(toks, lp.pos, d + 1, <<>>), LAMBDA arguments :
         Try(expect(toks, arguments.pos, Tok("RightParen")), LAMBDA rp :
         Ok(rp.pos, FunctionCall(name.val, arguments.val))))))

parse_variable_declaration(toks, pos, d) ==
    Try(expect(toks, pos, Tok("This")), LAMBDA this :
    IF peek(toks, this.pos).t # "Identifier"
    THEN Err(<<"Expected an identifier after 'this'">>)
    ELSE Try(expect(toks, this.pos + 1, Tok("Equal")), LAMBDA eq :
         Try(parse_expression(toks, eq.pos, d + 1), LAMBDA value :
         Ok(value.pos, VariableDeclaration(peek(toks, this.pos).v, value.val)))))

parse_assignment(toks, pos, d) ==
    IF peek(toks, pos).t # "Identifier"
    THEN Err(<<"Expected identifier for assignment">>)
    ELSE Try(expect(toks, pos + 1, Tok("Equal")), LAMBDA eq :
         Try(parse_expression(toks, eq.pos, d + 1), LAMBDA value :
         Ok(value.pos, Assignment(peek(toks, pos).v, value.val))))

RECURSIVE parse_parameter_list(_, _, _)
parse_parameter_list(toks, pos, parameters) ==
    IF peek(toks, pos).t # "Identifier" THEN Ok(pos, parameters)
    ELSE Try(expect(toks, pos + 1, Tok("Colon")), LAMBDA colon :
         Try(expect(toks, colon.pos, TIdentifier("int")), LAMBDA ty :
         IF peek(toks, ty.pos).t = "Comma"
         THEN parse_parameter_list(toks, ty.pos + 1, Append(parameters, peek(toks, pos).v))
         ELSE Ok(ty.pos, Append(parameters, peek(toks, pos).v))))

parse_condition(toks, pos, d) ==
    Try(parse_expression(toks, pos, d + 1), LAMBDA left :
    IF peek(toks, left.pos).t \notin {"CompareEqual", "CompareNotEqual"}
    THEN Err(<<"Unsupported comparative operator">>)
    ELSE Try(parse_expression(toks, left.pos + 1, d + 1), LAMBDA right :
         Ok(right.pos,
            Comparison(left.val,
                       IF peek(toks, left.pos).t = "CompareEqual" THEN "Equal" ELSE "NotEqual",
                       right.val))))

\* the optional "-> int" of a function declaration
parse_return_type(toks, pos) ==
    IF peek(toks, pos).t = "Arrow"
    THEN Try(expect(toks, pos + 1, TIdentifier("int")), LAMBDA ty : Ok(ty.pos, Some("Int")))
    ELSE Ok(pos, None)

parse_function_declaration(toks, pos, d) ==
    Try(expect(toks, pos, Tok("Func")), LAMBDA func :
    Try(get_identifier(toks, func.pos), LAMBDA name :
    Try(expect(toks, name.pos, Tok("LeftParen")), LAMBDA lp :
    Try(parse_parameter_list(toks, lp.pos, <<>>), LAMBDA parameters :
    Try(expect(toks, parameters.pos, Tok("RightParen")), LAMBDA rp :
    Try(parse_return_type(toks, rp.pos), LAMBDA return_type :
    Try(parse_block(toks, return_type.pos, d + 1), LAMBDA body :
    Ok(body.pos,
       FunctionDeclaration(name.val, parameters.val, return_type.val, body.val)))))))))

\* the while loop of parse_block; its result is (statements, return_expression)
parse_block_loop(toks, pos, d, statements) ==
    IF peek(toks, pos).t \in {"EOF", "RightBracket"}
    THEN Ok(pos, Block(statements, None))
    ELSE IF peek(toks, pos).t = "Return"
    THEN Try(parse_expression(toks, pos + 1, d + 1), LAMBDA e :
         Try(expect(toks, e.pos, Tok("SemiColon")), LAMBDA semi :
         Ok(semi.pos, Block(statements, Some(e.val)))))
    ELSE Try(parse_statement(toks, pos, d + 1), LAMBDA s :
         parse_block_loop(toks, s.pos, d, Append(statements, s.val)))

parse_block(toks, pos, d) ==
    IF d > StackLimit THEN Crash
    ELSE Try(expect(toks, pos, Tok("LeftBracket")), LAMBDA lb :
         Try(parse_block_loop(toks, lb.pos, d, <<>>), LAMBDA body :
         Try(expect(toks, body.pos, Tok("RightBracket")), LAMBDA rb :
         Ok(rb.pos, body.val))))

\* self.expect(Token::SemiColon)? after a parsed statement
ThenSemiColon(toks, pos, val) ==
    Try(expect(toks, pos, Tok("SemiColon")), LAMBDA semi : Ok(semi.pos, val))

parse_statement(toks, pos, d) ==
    IF d > StackLimit THEN Crash
    ELSE LET token == peek(toks, pos) IN
    CASE token.t = "This" ->
            Try(parse_variable_declaration(toks, pos, d + 1), LAMBDA declaration :
            ThenSemiColon(toks, declaration.pos, declaration.val))
      [] token.t = "Identifier" ->
            IF lookahead(toks, pos).t = "Equal"
            THEN Try(parse_assignment(toks, pos, d + 1), LAMBDA assignment :
                 ThenSemiColon(toks, assignment.pos, assignment.val))
            ELSE IF lookahead(toks, pos).t = "LeftParen"
            THEN Try(parse_function_call_expression(toks, pos, d + 1), LAMBDA function_call :
                 ThenSemiColon(toks, function_call.pos,
                               StatementFunctionCall(function_call.val)))
            ELSE Err(<<"Invalid statement">>)
      [] token.t = "Func" ->
            Try(parse_function_declaration(toks, pos, d + 1), LAMBDA func_decl :
            ThenSemiColon(toks, func_decl.pos, func_decl.val))
      [] token.t = "Print" ->
            Try(expect(toks, pos + 1, Tok("LeftParen")), LAMBDA lp :
            Try(parse_expression(toks, lp.pos, d + 1), LAMBDA expression :
            Try(expect(toks, expression.pos, Tok("RightParen")), LAMBDA rp :
            ThenSemiColon(toks, rp.pos, StatementPrint(expression.val)))))
      [] token.t = "If" ->
            Try(parse_condition(toks, pos + 1, d + 1), LAMBDA condition :
            Try(parse_block(toks, condition.pos, d + 1), LAMBDA then_block :
            IF peek(toks, then_block.pos).t = "Else"
            THEN Try(parse_block(toks, then_block.pos + 1, d + 1), LAMBDA else_block :
                 ThenSemiColon(toks, else_block.pos,
                     IfStatement(condition.val, then_block.val, Some(else_block.val))))
            ELSE ThenSemiColon(toks, then_block.pos,
                     IfStatement(condition.val, then_block.val, None))))
      [] OTHER -> Err(<<"Invalid statement">>)

RECURSIVE parse_loop(_, _, _)
\* the while loop of Parser::parse
parse_loop(toks, pos, statements) ==
    IF peek(toks, pos).t = "EOF" THEN Ok(pos, statements)
    ELSE Try(parse_statement(toks, pos, 2), LAMBDA s :
         parse_loop(toks, s.pos, Append(statements, s.val)))

\* Parser::new(tokens).parse(), called from main at native depth 1
parse(toks) == parse_loop(toks, 0, <<>>)

-----------------------------------------------------------------------------
(* i64 arithmetic as rustc compiles it: an overflowing +, -, * panics in a  *)
(* build with overflow checks and wraps in one without; / panics on a zero  *)
(* divisor and on MIN / -1 in every build, and truncates toward zero.       *)

InRange(n) == MinInt <= n /\ n <= MaxInt
Wrap(n) == ((n - MinInt) % (2 ^ WordBits)) + MinInt
\* the quotient rounded toward zero (\div rounds toward minus infinity)
TruncDiv(a, b) ==
    LET abs(n) == IF n < 0 THEN 0 - n ELSE n
    IN IF (a < 0) = (b < 0) THEN abs(a) \div abs(b) ELSE 0 - (abs(a) \div abs(b))

Value(v) == [kind |-> "ok", val |-> v, msg |-> <<>>]
Panic(msg) == [kind |-> "panic", val |-> None, msg |-> msg]

Overflowing(r, what) ==
    IF InRange(r) THEN Value(r)
    ELSE IF overflow_checks THEN Panic(<<"attempt to", what, "with overflow">>)
    ELSE Value(Wrap(r))

i64_add(a, b) == Overflowing(a + b, "add")
i64_sub(a, b) == Overflowing(a - b, "subtract")
i64_mul(a, b) == Overflowing(a * b, "multiply")
i64_div(a, b) ==
    IF b = 0 THEN Panic(<<"attempt to divide by zero">>)
    ELSE IF a = MinInt /\ b = 0 - 1 THEN Panic(<<"attempt to divide with overflow">>)
    ELSE Value(TruncDiv(a, b))

-----------------------------------------------------------------------------
(* optimizer.rs *)

IsInteger(e) == e.k = "Integer"
IsLiteral(e, n) == e.k = "Integer" /\ e.v = n

\* Expression::Integer(<the i64 result>), or the panic of the arithmetic
Folded(r) == IF r.kind = "ok" THEN Value(Integer(r.val)) ELSE r

\* a match with one more arm, an identity rule for subtraction: y - 0 becomes y
fold_match_subtract_identity(left, operator, right) ==
    CASE IsInteger(left) /\ IsInteger(right) /\ operator = "Add" ->
            Folded(i64_add(left.v, right.v))
      [] IsInteger(left) /\ IsInteger(right) /\ operator = "Subtract" ->
            Folded(i64_sub(left.v, right.v))
      [] IsInteger(left) /\ IsInteger(right) /\ operator = "Multiply" ->
            Folded(i64_mul(left.v, right.v))
      [] IsInteger(left) /\ IsInteger(right) /\ operator = "Divide" /\ right.v # 0 ->
            Folded(i64_div(left.v, right.v))
      [] OTHER ->
    IF operator = "Subtract" /\ IsLiteral(right, 0) THEN Value(left)
    ELSE IF operator = "Multiply" /\ (IsLiteral(left, 0) \/ IsLiteral(right, 0))
    THEN Value(Integer(0))
    ELSE IF (operator = "Multiply" /\ IsLiteral(left, 1)) \/ (operator = "Add" /\ IsLiteral(left, 0))
    THEN Value(right)
    ELSE IF (operator = "Multiply" /\ IsLiteral(right, 1)) \/ (operator = "Add" /\ IsLiteral(right, 0))
    THEN Value(left)
    ELSE Value(ArithmeticExpression(left, operator, right))

\* the match on (left, operator, right) of constant_fold, arms in source order
fold_match(left, operator, right) ==
    CASE IsInteger(left) /\ operator = "Add" /\ IsInteger(right) ->
            Folded(i64_add(left.v, right.v))
      [] IsInteger(left) /\ operator = "Subtract" /\ IsInteger(right) ->
            Folded(i64_sub(left.v, right.v))
      [] IsInteger(left) /\ operator = "Multiply" /\ IsInteger(right) ->
            Folded(i64_mul(left.v, right.v))
      [] IsInteger(left) /\ operator = "Divide" /\ IsInteger(right) /\ right.v # 0 ->
            Folded(i64_div(left.v, right.v))
      [] OTHER ->
    CASE IsLiteral(left, 1) /\ operator = "Multiply" -> Value(right)
      [] OTHER ->
    CASE operator = "Multiply" /\ IsLiteral(right, 1) -> Value(left)
      [] OTHER ->
    CASE IsLiteral(left, 0) /\ operator = "Multiply" -> Value(Integer(0))
      [] OTHER ->
    CASE operator = "Multiply" /\ IsLiteral(right, 0) -> Value(Integer(0))
      [] OTHER ->
    CASE IsLiteral(left, 0) /\ operator = "Add" -> Value(right)
      [] OTHER ->
    CASE operator = "Add" /\ IsLiteral(right, 0) -> Value(left)
      [] OTHER -> Value(ArithmeticExpression(left, operator, right))

RECURSIVE constant_fold(_)
constant_fold(expression) ==
    IF expression.k = "ArithmeticExpression"
    THEN Try(constant_fold(expression.left), LAMBDA left :
         Try(constant_fold(expression.right), LAMBDA right :
         fold_match(left.val, expression.operator, right.val)))
    ELSE Value(expression)

optimize_condition(condition) ==
    Try(constant_fold(condition.left), LAMBDA left :
    Try(constant_fold(condition.right), LAMBDA right :
    Value(Comparison(left.val, condition.operator, right.val))))

RECURSIVE optimize_statement(_)
RECURSIVE optimize_statements(_, _)
RECURSIVE optimize_block(_)

\* statements.into_iter().map(optimize_statement).collect()
optimize_statements(statements, done) ==
    IF statements = <<>> THEN Value(done)
    ELSE Try(optimize_statement(Head(statements)), LAMBDA s :
         optimize_statements(Tail(statements), Append(done, s.val)))

optimize_block(block) ==
    Try(optimize_statements(block.statements, <<>>), LAMBDA statements :
    IF block.return_expression = None
    THEN Value(Block(statements.val, None))
    ELSE Try(constant_fold(block.return_expression[1]), LAMBDA e :
         Value(Block(statements.val, Some(e.val)))))

optimize_statement(statement) ==
    CASE statement.k = "VariableDeclaration" ->
            Try(constant_fold(statement.value), LAMBDA value :
            Value(VariableDeclaration(statement.identifier, value.val)))
      [] statement.k = "FunctionDeclaration" ->
            Try(optimize_block(statement.body), LAMBDA body :
            Value(FunctionDeclaration(statement.name, statement.parameters,
                                      statement.return_type, body.val)))
      [] statement.k = "StatementFunctionCall" ->
            Try(constant_fold(statement.expr), LAMBDA e :
            Value(StatementFunctionCall(e.val)))
      [] statement.k = "Assignment" ->
            Try(constant_fold(statement.value), LAMBDA value :
            Value(Assignment(statement.identifier, value.val)))
      [] statement.k = "Print" ->
            Try(constant_fold(statement.expr), LAMBDA e :
            Value(StatementPrint(e.val)))
      [] statement.k = "IfStatement" ->
            Try(optimize_condition(statement.condition), LAMBDA condition :
            Try(optimize_block(statement.then_block), LAMBDA then_block :
            IF statement.else_block = None
            THEN Value(IfStatement(condition.val, then_block.val, None))
            ELSE Try(optimize_block(statement.else_block[1]), LAMBDA else_block :
                 Value(IfStatement(condition.val, then_block.val, Some(else_block.val))))))

optimize_ast(program) == optimize_statements(program, <<>>)

-----------------------------------------------------------------------------
(* code_generator.rs *)

Op(op) == [op |-> op]
PUSH(value) == [op |-> "PUSH", value |-> value]
STORE(name) == [op |-> "STORE", name |-> name]
LOAD(name) == [op |-> "LOAD", name |-> name]
DECLARE(name) == [op |-> "DECLARE", name |-> name]
CALL(name) == [op |-> "CALL", name |-> name]
TailCall(name) == [op |-> "TailCall", name |-> name]
JUMP(address) == [op |-> "JUMP", address |-> address]
JmpIfFalse(address) == [op |-> "JmpIfFalse", address |-> address]

\* HashMap::insert
Insert(map, key, value) ==
    [x \in DOMAIN map \cup {key} |-> IF x = key THEN value ELSE map[x]]
EmptyMap == <<>>

\* CodeGenerator::new
NewCodeGenerator ==
    [opcode_list |-> <<>>, label_counter |-> 0, label_positions |-> EmptyMap,
     unresolved_jumps |-> <<>>]

Emit(g, opcode) == [g EXCEPT !.opcode_list = Append(@, opcode)]

generate_operator(g, operator) ==
    Emit(g, CASE operator = "Add" -> Op("ADD")
              [] operator = "Subtract" -> Op("SUB")
              [] operator = "Multiply" -> Op("MUL")
              [] operator = "Divide" -> Op("DIV"))

generate_comparative_operator(g, operator) ==
    Emit(g, IF operator = "Equal" THEN Op("EQUAL") ELSE Op("NotEqual"))

\* get_new_label returns g.label_counter and leaves the generator in this state
get_new_label(g) == [g EXCEPT !.label_counter = @ + 1]

\* a label whose position is never recorded
set_label_position_skipped(g, label) == g

set_label_position(g, label) ==
    [g EXCEPT !.label_positions = Insert(@, label, Len(g.opcode_list))]

\* a jump that is emitted without being queued for back-patching
emit_jump_unrecorded(g, opcode, label) == Emit(g, opcode)

emit_jump(g, opcode, label) ==
    [g EXCEPT !.opcode_list = Append(@, opcode),
              !.unresolved_jumps = Append(@, <<label, Len(g.opcode_list)>>)]

RECURSIVE generate_expression(_, _)
RECURSIVE generate_arguments(_, _)

\* for arg in arguments { self.generate_expression(arg); }
generate_arguments(g, arguments) ==
    IF arguments = <<>> THEN g
    ELSE generate_arguments(generate_expression(g, Head(arguments)), Tail(arguments))

generate_expression(g, expression) ==
    CASE expression.k = "Integer" -> Emit(g, PUSH(expression.v))
      [] expression.k = "Identifier" -> Emit(g, LOAD(expression.name))
      [] expression.k = "ArithmeticExpression" ->
            generate_operator(
                generate_expression(generate_expression(g, expression.left), expression.right),
                expression.operator)
      [] expression.k = "FunctionCall" ->
            Emit(generate_arguments(g, expression.arguments), CALL(expression.name))

generate_condition(g, condition) ==
    generate_comparative_operator(
        generate_expression(generate_expression(g, condition.left), condition.right),
        condition.operator)

RECURSIVE generate_statement(_, _)
RECURSIVE generate_statements(_, _)
RECURSIVE generate_block(_, _)

\* for statement in statements { self.generate_statement(statement); }
generate_statements(g, statements) ==
    IF statements = <<>> THEN g
    ELSE generate_statements(generate_statement(g, Head(statements)), Tail(statements))

RECURSIVE EmitParameterStores_forward(_, _)
\* the parameter STOREs in declaration order
EmitParameterStores_forward(g, parameters) ==
    IF parameters = <<>> THEN g
    ELSE EmitParameterStores_forward(Emit(g, STORE(Head(parameters))), Tail(parameters))

RECURSIVE EmitParameterStores(_, _)
\* for param in parameters.iter().rev() { push STORE(param.name) }
EmitParameterStores(g, parameters) ==
    IF parameters = <<>> THEN g
    ELSE EmitParameterStores(Emit(g, STORE(parameters[Len(parameters)])),
                             SubSeq(parameters, 1, Len(parameters) - 1))

generate_block(g, block) ==
    LET g1 == generate_statements(g, block.statements) IN
    IF block.return_expression = None THEN g1
    ELSE LET return_expr == block.return_expression[1] IN
         Emit(IF return_expr.k = "FunctionCall"
              THEN Emit(generate_arguments(g1, return_expr.arguments),
                        TailCall(return_expr.name))
              ELSE generate_expression(g1, return_expr),
              Op("RET"))

generate_statement(g, statement) ==
    CASE statement.k \in {"VariableDeclaration", "Assignment"} ->
            Emit(generate_expression(g, statement.value), STORE(statement.identifier))
      [] statement.k = "FunctionDeclaration" ->
            LET g1 == EmitParameterStores(
                          Emit(Emit(g, DECLARE(statement.name)), Op("ENTER")),
                          statement.parameters)
                g2 == generate_block(g1, statement.body)
                g3 == IF statement.body.return_expression = None
                      THEN Emit(g2, Op("RET")) ELSE g2
            IN Emit(g3, Op("EXIT"))
      [] statement.k = "StatementFunctionCall" ->
            generate_expression(g, statement.expr)
      [] statement.k = "Print" ->
            Emit(generate_expression(g, statement.expr), Op("PRINT"))
      [] statement.k = "IfStatement" ->
            LET g1 == generate_condition(g, statement.condition)
                else_label == g1.label_counter
                g2 == get_new_label(g1)
                end_label == g2.label_counter
                g3 == get_new_label(g2)
                g4 == emit_jump(g3, JmpIfFalse(0), else_label)
                g5 == generate_block(g4, statement.then_block)
                g6 == emit_jump(g5, JUMP(0), end_label)
                g7 == set_label_position(g6, else_label)
                g8 == IF statement.else_block = None THEN g7
                      ELSE generate_block(g7, statement.else_block[1])
            IN set_label_position(g8, end_label)

RECURSIVE resolve_labels_loop(_, _)
\* the for loop of resolve_labels over unresolved_jumps[i ..]
resolve_labels_loop(g, i) ==
    IF i > Len(g.unresolved_jumps) THEN Value(g)
    ELSE LET label == g.unresolved_jumps[i][1]
             index == g.unresolved_jumps[i][2]
         IN IF label \notin DOMAIN g.label_positions
            THEN Panic(<<"Unresolved label">>)
            ELSE IF index >= Len(g.opcode_list)
            THEN resolve_labels_loop(g, i + 1)
            ELSE IF g.opcode_list[index + 1].op \notin {"JUMP", "JmpIfFalse"}
            THEN Panic(<<"Unexpected opcode for label resolution">>)
            ELSE resolve_labels_loop(
                     [g EXCEPT !.opcode_list[index + 1].address = g.label_positions[label]],
                     i + 1)

resolve_labels(g) ==
    LET r == resolve_labels_loop(g, 1) IN
    IF r.kind # "ok" THEN r ELSE Value([r.val EXCEPT !.unresolved_jumps = <<>>])

\* CodeGenerator::new().generate(program): the generator as generate leaves it
generate(program) == resolve_labels(generate_statements(NewCodeGenerator, program))

-----------------------------------------------------------------------------
(* virtual_machine.rs *)

compiler_vars == <<entry, overflow_checks, tokens, ast, optimized, instructions>>

Frame(local_variables, return_address) ==
    [local_variables |-> local_variables, return_address |-> return_address]

\* the lines written by println!
PrintedValue(value) == [line |-> "value", value |-> value]
PrintedAllocate(name) == [line |-> "Allocate stack frame for function", name |-> name]
PrintedTailCall(name) == [line |-> "Tail call - reuse stack frame for function", name |-> name]

\* the loop condition of run and the opcode it hands to execute
Running == pc = "run" /\ instruction_pointer < Len(instructions)
get_current_opcode == instructions[instruction_pointer + 1]
Executing(op) == Running /\ get_current_opcode.op = op

Top(s) == s[Len(s)]
Pop(s) == SubSeq(s, 1, Len(s) - 1)

\* a failure that is recorded while the loop of run goes on
Abort_resume(msg) == pc' = pc /\ failure' = Some(msg)

\* a panic!/expect/unwrap_or_else failure: the process aborts
Abort(msg) == pc' = "aborted" /\ failure' = Some(msg)
Continue == pc' = pc /\ failure' = failure

\* self.next_instruction()
next_instruction == instruction_pointer' = instruction_pointer + 1

\* observation of the step being taken (not program state)
Observe(calls, rets, tail_calls, cond) ==
    history' = [calls |-> history.calls + calls,
                rets |-> history.rets + rets,
                tail_calls |-> history.tail_calls + tail_calls,
                trace |-> Append(history.trace, instruction_pointer),
                args |-> IF get_current_opcode.op \in {"CALL", "TailCall"}
                         THEN stack ELSE history.args,
                callers |-> IF calls = 1
                            THEN Append(history.callers,
                                        [frames |-> stack_frames, at |-> instruction_pointer])
                            ELSE IF rets = 1 THEN Pop(history.callers)
                            ELSE history.callers,
                conds |-> IF cond = None THEN history.conds
                          ELSE Insert(history.conds, instruction_pointer, cond[1])]
ObserveStep == Observe(0, 0, 0, None)

find_function_start(name) ==
    IF name \in DOMAIN functions THEN Some(functions[name]) ELSE None

\* a lookup that asks the innermost frame before the global table
get_variable_local_first(name) ==
    IF stack_frames # <<>> /\ name \in DOMAIN Top(stack_frames).local_variables
    THEN Some(Top(stack_frames).local_variables[name])
    ELSE IF name \in DOMAIN variables THEN Some(variables[name])
    ELSE None

get_variable(name) ==
    IF name \in DOMAIN variables THEN Some(variables[name])
    ELSE IF stack_frames = <<>> THEN None
    ELSE IF name \in DOMAIN Top(stack_frames).local_variables
         THEN Some(Top(stack_frames).local_variables[name])
         ELSE None

\* binary_operation(op): pops b, then a, pushes op(a, b)
binary_operation(op(_, _)) ==
    /\ ObserveStep
    /\ UNCHANGED <<compiler_vars, variables, call_stack, stack_frames, functions, output>>
    /\ IF Len(stack) >= 2
       THEN LET b == stack[Len(stack)]
                a == stack[Len(stack) - 1]
                r == op(a, b)
            IN IF r.kind = "ok"
               THEN /\ stack' = Append(SubSeq(stack, 1, Len(stack) - 2), r.val)
                    /\ next_instruction
                    /\ Continue
               ELSE /\ stack' = SubSeq(stack, 1, Len(stack) - 2)
                    /\ UNCHANGED instruction_pointer
                    /\ Abort(r.msg)
       ELSE /\ stack' = <<>>
            /\ UNCHANGED instruction_pointer
            /\ Abort(<<"Stack underflow on binary operation">>)

compare_equal(a, b) == Value(IF a = b THEN 1 ELSE 0)
compare_not_equal(a, b) == Value(IF a # b THEN 1 ELSE 0)

ExecPUSH ==
    /\ Executing("PUSH")
    /\ stack' = Append(stack, get_current_opcode.value)
    /\ next_instruction
    /\ Continue
    /\ ObserveStep
    /\ UNCHANGED <<compiler_vars, variables, call_stack, stack_frames, functions, output>>

ExecPRINT ==
    /\ Executing("PRINT")
    /\ ObserveStep
    /\ UNCHANGED <<compiler_vars, variables, call_stack, stack_frames, functions>>
    /\ IF stack # <<>>
       THEN /\ output' = Append(output, PrintedValue(Top(stack)))
            /\ stack' = Pop(stack)
            /\ next_instruction
            /\ Continue
       ELSE /\ UNCHANGED <<output, stack, instruction_pointer>>
            /\ Abort(<<"Stack underflow on PRINT">>)

ExecADD == Executing("ADD") /\ binary_operation(i64_add)
ExecSUB == Executing("SUB") /\ binary_operation(i64_sub)
ExecMUL == Executing("MUL") /\ binary_operation(i64_mul)
ExecDIV == Executing("DIV") /\ binary_operation(i64_div)
ExecEQUAL == Executing("EQUAL") /\ binary_operation(compare_equal)
ExecNotEqual == Executing("NotEqual") /\ binary_operation(compare_not_equal)

\* a STORE that writes the global table whether or not a frame is active
StoreInto_globals(name, top_value) ==
    /\ variables' = Insert(variables, name, top_value)
    /\ UNCHANGED stack_frames

\* the table STORE writes: the innermost frame's locals, else the globals
StoreInto(name, top_value) ==
    IF stack_frames # <<>>
    THEN /\ stack_frames' =
               [stack_frames EXCEPT ![Len(stack_frames)].local_variables =
                                        Insert(@, name, top_value)]
         /\ UNCHANGED variables
    ELSE /\ variables' = Insert(variables, name, top_value)
         /\ UNCHANGED stack_frames

ExecSTORE ==
    /\ Executing("STORE")
    /\ ObserveStep
    /\ UNCHANGED <<compiler_vars, call_stack, functions, output>>
    /\ IF stack # <<>>
       THEN /\ stack' = Pop(stack)
            /\ StoreInto(get_current_opcode.name, Top(stack))
            /\ next_instruction
            /\ Continue
       ELSE /\ UNCHANGED <<stack, variables, stack_frames, instruction_pointer>>
            /\ Abort(<<"Stack underflow on STORE">>)

ExecLOAD ==
    /\ Executing("LOAD")
    /\ ObserveStep
    /\ UNCHANGED <<compiler_vars, variables, call_stack, stack_frames, functions, output>>
    /\ LET value == get_variable(get_current_opcode.name) IN
       IF value # None
       THEN /\ stack' = Append(stack, value[1])
            /\ next_instruction
            /\ Continue
       ELSE /\ UNCHANGED <<stack, instruction_pointer>>
            /\ Abort(<<"Undefined variable", get_current_opcode.name>>)

\* a DECLARE that skips nothing
SkipToExit_nothing(ip) == Some(ip)

RECURSIVE SkipToExit(_)
\* while !matches!(self.instructions[ip], OpCode::EXIT) { ip += 1 }: the index
\* of the EXIT found, or None when the index runs off the end of the Vec
SkipToExit(ip) ==
    IF ip >= Len(instructions) THEN None
    ELSE IF instructions[ip + 1].op = "EXIT" THEN Some(ip)
    ELSE SkipToExit(ip + 1)

ExecDECLARE ==
    /\ Executing("DECLARE")
    /\ ObserveStep
    /\ UNCHANGED <<compiler_vars, stack, variables, call_stack, stack_frames, output>>
    /\ functions' = Insert(functions, get_current_opcode.name, instruction_pointer + 1)
    /\ LET exit == SkipToExit(instruction_pointer) IN
       IF exit # None
       THEN /\ instruction_pointer' = exit[1] + 1
            /\ Continue
       ELSE /\ instruction_pointer' = Len(instructions)
            /\ Abort(<<"index out of bounds">>)

\* where CALL and TailCall leave the instruction pointer once the function
\* start has been found: it is set to the start, then next_instruction runs
AfterJumpTo(start) == start + 1

\* a CALL that reuses the innermost frame when there is one
CallFrames_reuse(next) ==
    IF stack_frames = <<>> THEN <<Frame(EmptyMap, next)>> ELSE stack_frames

\* the frame stack as CALL leaves it
CallFrames(next) == Append(stack_frames, Frame(EmptyMap, next))

ExecCALL ==
    /\ Executing("CALL")
    /\ Len(stack_frames) < MaxFrames
    /\ Observe(1, 0, 0, None)
    /\ UNCHANGED <<compiler_vars, stack, variables, functions>>
    /\ LET name == get_current_opcode.name
           next == instruction_pointer + 1
           start == find_function_start(name)
       IN /\ stack_frames' = CallFrames(next)
          /\ output' = Append(output, PrintedAllocate(name))
          /\ call_stack' = Append(call_stack, next)
          /\ IF start # None
             THEN /\ instruction_pointer' = AfterJumpTo(start[1])
                  /\ Continue
             ELSE /\ UNCHANGED instruction_pointer
                  /\ Abort(<<"Undefined function name", name>>)

\* a tail call that clears the locals of every active frame
TailCallFrames_clear_all ==
    [i \in DOMAIN stack_frames |-> [stack_frames[i] EXCEPT !.local_variables = EmptyMap]]

\* a tail call that pushes a frame as an ordinary call does
TailCallFrames_push ==
    Append(stack_frames, Frame(EmptyMap, instruction_pointer + 1))

\* the frame stack as TailCall leaves it
TailCallFrames ==
    [stack_frames EXCEPT ![Len(stack_frames)].local_variables = EmptyMap]

ExecTailCall ==
    /\ Executing("TailCall")
    /\ Observe(0, 0, 1, None)
    /\ UNCHANGED <<compiler_vars, stack, variables, call_stack, functions>>
    /\ LET name == get_current_opcode.name
           start == find_function_start(name)
       IN IF stack_frames = <<>>
          THEN /\ UNCHANGED <<stack_frames, output, instruction_pointer>>
               /\ Abort(<<"No frame for tail call">>)
          ELSE /\ stack_frames' = TailCallFrames
               /\ output' = Append(output, PrintedTailCall(name))
               /\ IF start # None
                  THEN /\ instruction_pointer' = AfterJumpTo(start[1])
                       /\ Continue
                  ELSE /\ UNCHANGED instruction_pointer
                       /\ Abort(<<"Undefined function name", name>>)

ExecRET ==
    /\ Executing("RET")
    /\ UNCHANGED <<compiler_vars, stack, variables, call_stack, functions, output>>
    /\ IF stack_frames # <<>>
       THEN /\ stack_frames' = Pop(stack_frames)
            /\ instruction_pointer' = Top(stack_frames).return_address
            /\ Observe(0, 1, 0, None)
            /\ Continue
       ELSE /\ UNCHANGED <<stack_frames, instruction_pointer>>
            /\ ObserveStep
            /\ Abort(<<"Return with no active frame">>)

ExecENTER ==
    /\ Executing("ENTER")
    /\ ObserveStep
    /\ UNCHANGED <<compiler_vars, stack, variables, call_stack, stack_frames, functions, output>>
    /\ IF stack_frames # <<>>
       THEN next_instruction /\ Continue
       ELSE UNCHANGED instruction_pointer /\ Abort(<<"No frame on ENTER">>)

ExecEXIT ==
    /\ Executing("EXIT")
    /\ ObserveStep
    /\ next_instruction
    /\ Continue
    /\ UNCHANGED <<compiler_vars, stack, variables, call_stack, stack_frames, functions, output>>

ExecJUMP ==
    /\ Executing("JUMP")
    /\ ObserveStep
    /\ instruction_pointer' = get_current_opcode.address
    /\ Continue
    /\ UNCHANGED <<compiler_vars, stack, variables, call_stack, stack_frames, functions, output>>

\* a conditional jump taken on a nonzero condition instead
JmpIfFalseTarget_inverted(condition, address) ==
    IF condition # 0 THEN address ELSE instruction_pointer + 1

\* where JmpIfFalse(address) at the current index goes on a popped condition
JmpIfFalseTarget(condition, address) ==
    IF condition = 0 THEN address ELSE instruction_pointer + 1

ExecJmpIfFalse ==
    /\ Executing("JmpIfFalse")
    /\ UNCHANGED <<compiler_vars, variables, call_stack, stack_frames, functions, output>>
    /\ IF stack # <<>>
       THEN /\ stack' = Pop(stack)
            /\ instruction_pointer' = JmpIfFalseTarget(Top(stack), get_current_opcode.address)
            /\ Observe(0, 0, 0, Some(Top(stack)))
            /\ Continue
       ELSE /\ UNCHANGED <<stack, instruction_pointer>>
            /\ ObserveStep
            /\ Abort(<<"Stack underflow on JmpIfFalse">>)

\* run returns: the instruction pointer has left the instruction sequence
RunReturns ==
    /\ pc = "run"
    /\ instruction_pointer >= Len(instructions)
    /\ pc' = "done"
    /\ UNCHANGED <<compiler_vars, stack, variables, instruction_pointer, call_stack,
                   stack_frames, functions, output, failure, history>>

\* VirtualMachine::new, execute and run once more, as functions of a machine
\* record, so that two instruction sequences can be run from one state.
\* call_stack is left out: it is pushed by CALL and never read.
Machine(code) ==
    [instructions |-> code, stack |-> <<>>, variables |-> EmptyMap,
     instruction_pointer |-> 0, stack_frames |-> <<>>, functions |-> EmptyMap,
     output |-> <<>>, failure |-> None]

\* execute(&self.get_current_opcode().clone())
execute(m) ==
    LET opcode == m.instructions[m.instruction_pointer + 1]
        n == Len(m.stack)
        depth == Len(m.stack_frames)
        halt(at, msg) == [at EXCEPT !.failure = Some(msg)]
        advance(at) == [at EXCEPT !.instruction_pointer = @ + 1]
        popped == [m EXCEPT !.stack = SubSeq(m.stack, 1, n - 1)]
        binary(op(_, _)) ==
            IF n < 2 THEN halt([m EXCEPT !.stack = <<>>],
                               <<"Stack underflow on binary operation">>)
            ELSE LET r == op(m.stack[n - 1], m.stack[n])
                     rest == [m EXCEPT !.stack = SubSeq(m.stack, 1, n - 2)]
                 IN IF r.kind = "ok"
                    THEN advance([rest EXCEPT !.stack = Append(@, r.val)])
                    ELSE halt(rest, r.msg)
        exits == {i \in m.instruction_pointer..(Len(m.instructions) - 1) :
                      m.instructions[i + 1].op = "EXIT"}
        jump_to(at, name) ==
            IF name \in DOMAIN at.functions
            THEN [at EXCEPT !.instruction_pointer = at.functions[name] + 1]
            ELSE halt(at, <<"Undefined function name", name>>)
    IN CASE opcode.op = "PUSH" -> advance([m EXCEPT !.stack = Append(@, opcode.value)])
         [] opcode.op = "PRINT" ->
                IF n = 0 THEN halt(m, <<"Stack underflow on PRINT">>)
                ELSE advance([popped EXCEPT !.output = Append(@, PrintedValue(m.stack[n]))])
         [] opcode.op = "ADD" -> binary(i64_add)
         [] opcode.op = "SUB" -> binary(i64_sub)
         [] opcode.op = "MUL" -> binary(i64_mul)
         [] opcode.op = "DIV" -> binary(i64_div)
         [] opcode.op = "EQUAL" -> binary(compare_equal)
         [] opcode.op = "NotEqual" -> binary(compare_not_equal)
         [] opcode.op = "STORE" ->
                IF n = 0 THEN halt(m, <<"Stack underflow on STORE">>)
                ELSE IF depth > 0
                THEN advance([popped EXCEPT !.stack_frames[depth].local_variables =
                                                Insert(@, opcode.name, m.stack[n])])
                ELSE advance([popped EXCEPT !.variables = Insert(@, opcode.name, m.stack[n])])
         [] opcode.op = "LOAD" ->
                IF opcode.name \in DOMAIN m.variables
                THEN advance([m EXCEPT !.stack = Append(@, m.variables[opcode.name])])
                ELSE IF depth > 0 /\ opcode.name \in DOMAIN m.stack_frames[depth].local_variables
                THEN advance([m EXCEPT !.stack =
                         Append(@, m.stack_frames[depth].local_variables[opcode.name])])
                ELSE halt(m, <<"Undefined variable", opcode.name>>)
         [] opcode.op = "DECLARE" ->
                LET declared == [m EXCEPT !.functions =
                                     Insert(@, opcode.name, m.instruction_pointer + 1)]
                IN IF exits = {}
                   THEN halt([declared EXCEPT !.instruction_pointer = Len(m.instructions)],
                             <<"index out of bounds">>)
                   ELSE [declared EXCEPT !.instruction_pointer =
                            (CHOOSE i \in exits : \A j \in exits : i <= j) + 1]
         [] opcode.op = "CALL" ->
                jump_to([m EXCEPT !.stack_frames =
                                      Append(@, Frame(EmptyMap, m.instruction_pointer + 1)),
                                  !.output = Append(@, PrintedAllocate(opcode.name))],
                        opcode.name)
         [] opcode.op = "TailCall" ->
                IF depth = 0 THEN halt(m, <<"No frame for tail call">>)
                ELSE jump_to([m EXCEPT !.stack_frames[depth].local_variables = EmptyMap,
                                       !.output = Append(@, PrintedTailCall(opcode.name))],
                             opcode.name)
         [] opcode.op = "RET" ->
                IF depth = 0 THEN halt(m, <<"Return with no active frame">>)
                ELSE [m EXCEPT !.stack_frames = SubSeq(@, 1, depth - 1),
                               !.instruction_pointer = m.stack_frames[depth].return_address]
         [] opcode.op = "ENTER" ->
                IF depth = 0 THEN halt(m, <<"No frame on ENTER">>) ELSE advance(m)
         [] opcode.op = "EXIT" -> advance(m)
         [] opcode.op = "JUMP" -> [m EXCEPT !.instruction_pointer = opcode.address]
         [] opcode.op = "JmpIfFalse" ->
                IF n = 0 THEN halt(m, <<"Stack underflow on JmpIfFalse">>)
                ELSE IF m.stack[n] = 0
                THEN [popped EXCEPT !.instruction_pointer = opcode.address]
                ELSE advance(popped)

RECURSIVE run(_)
\* while self.instruction_pointer < self.instructions.len() { self.execute(..) },
\* ended by a panic
run(m) ==
    IF m.failure # None \/ m.instruction_pointer >= Len(m.instructions) THEN m
    ELSE run(execute(m))

-----------------------------------------------------------------------------
(* main.rs: the pipeline *)

vm_vars == <<stack, variables, instruction_pointer, call_stack, stack_frames,
             functions, output, history>>

\* let ast = match parser.parse() { Ok(ast) => ast, Err(e) => { ...; return } }
Parsed(r) ==
    CASE r.kind = "ok" ->
             /\ ast' = Some(r.val)
             /\ pc' = IF entry = "parse" THEN "done" ELSE "optimize"
             /\ UNCHANGED failure
      [] r.kind = "err" ->
             /\ pc' = "parse_error"
             /\ failure' = Some(r.msg)
             /\ UNCHANGED ast
      [] r.kind = "crash" ->
             /\ Abort(r.msg)
             /\ UNCHANGED ast

ParseStep ==
    /\ pc = "parse"
    /\ Parsed(parse(tokens))
    /\ UNCHANGED <<entry, overflow_checks, tokens, optimized, instructions, vm_vars>>

\* Optimizer::optimize_ast(ast)
Optimized(r) ==
    IF r.kind = "ok"
    THEN optimized' = Some(r.val) /\ pc' = "generate" /\ UNCHANGED failure
    ELSE Abort(r.msg) /\ UNCHANGED optimized

OptimizeStep ==
    /\ pc = "optimize"
    /\ Optimized(optimize_ast(ast[1]))
    /\ UNCHANGED <<entry, overflow_checks, tokens, ast, instructions, vm_vars>>

\* code_generator.generate(optimized) and VirtualMachine::new(opcodes)
GenerateStep ==
    /\ pc = "generate"
    /\ LET r == generate(optimized[1]) IN
       IF r.kind = "ok"
       THEN instructions' = r.val.opcode_list /\ pc' = "run" /\ UNCHANGED failure
       ELSE Abort(r.msg) /\ UNCHANGED instructions
    /\ UNCHANGED <<entry, overflow_checks, tokens, ast, optimized, vm_vars>>

-----------------------------------------------------------------------------
(* Inputs: token sequences as Lexer::tokenize yields them *)

\* fn f(n: int) -> int { if n == 0 { return 0; }; return f(n - 1); }; f(k);
Countdown(k) ==
    <<Tok("Func"), TIdentifier("f"), Tok("LeftParen"), TIdentifier("n"), Tok("Colon"),
      TIdentifier("int"), Tok("RightParen"),
      Tok("Arrow"), TIdentifier("int"), Tok("LeftBracket"),
      Tok("If"), TIdentifier("n"), Tok("CompareEqual"), TInteger(0), Tok("LeftBracket"),
          Tok("Return"), TInteger(0), Tok("SemiColon"), Tok("RightBracket"), Tok("SemiColon"),
      Tok("Return"), TIdentifier("f"), Tok("LeftParen"), TIdentifier("n"), Tok("Minus"),
      TInteger(1), Tok("RightParen"), Tok("SemiColon"),
      Tok("RightBracket"), Tok("SemiColon"),
      TIdentifier("f"), Tok("LeftParen"), TInteger(k), Tok("RightParen"), Tok("SemiColon")>>

\* fn g(n: int) -> int { if n == 0 { return 0; }; return g(n - 1) + 1; }; print(g(k));
NonTailRecursion(k) ==
    <<Tok("Func"), TIdentifier("g"), Tok("LeftParen"), TIdentifier("n"), Tok("Colon"),
      TIdentifier("int"), Tok("RightParen"),
      Tok("Arrow"), TIdentifier("int"), Tok("LeftBracket"),
      Tok("If"), TIdentifier("n"), Tok("CompareEqual"), TInteger(0), Tok("LeftBracket"),
          Tok("Return"), TInteger(0), Tok("SemiColon"), Tok("RightBracket"), Tok("SemiColon"),
      Tok("Return"), TIdentifier("g"), Tok("LeftParen"), TIdentifier("n"), Tok("Minus"),
      TInteger(1), Tok("RightParen"),
          Tok("Plus"), TInteger(1), Tok("SemiColon"),
      Tok("RightBracket"), Tok("SemiColon"),
      Tok("Print"), Tok("LeftParen"), TIdentifier("g"), Tok("LeftParen"), TInteger(k),
      Tok("RightParen"), Tok("RightParen"), Tok("SemiColon")>>

\* this x = 1; fn f() { this x = 2; print(x); }; f(); print(x);
GlobalShadowsLocal ==
    <<Tok("This"), TIdentifier("x"), Tok("Equal"), TInteger(1), Tok("SemiColon"),
      Tok("Func"), TIdentifier("f"), Tok("LeftParen"), Tok("RightParen"), Tok("LeftBracket"),
          Tok("This"), TIdentifier("x"), Tok("Equal"), TInteger(2), Tok("SemiColon"),
          Tok("Print"), Tok("LeftParen"), TIdentifier("x"), Tok("RightParen"), Tok("SemiColon"),
      Tok("RightBracket"), Tok("SemiColon"),
      TIdentifier("f"), Tok("LeftParen"), Tok("RightParen"), Tok("SemiColon"),
      Tok("Print"), Tok("LeftParen"), TIdentifier("x"), Tok("RightParen"), Tok("SemiColon")>>

\* fn h(a: int, b: int) { print(a - b); }; h(5, 3);
LocalRead ==
    <<Tok("Func"), TIdentifier("h"), Tok("LeftParen"), TIdentifier("a"), Tok("Colon"),
      TIdentifier("int"), Tok("Comma"),
          TIdentifier("b"), Tok("Colon"), TIdentifier("int"), Tok("RightParen"),
          Tok("LeftBracket"),
          Tok("Print"), Tok("LeftParen"), TIdentifier("a"), Tok("Minus"), TIdentifier("b"),
          Tok("RightParen"), Tok("SemiColon"),
      Tok("RightBracket"), Tok("SemiColon"),
      TIdentifier("h"), Tok("LeftParen"), TInteger(5), Tok("Comma"), TInteger(3),
      Tok("RightParen"), Tok("SemiColon")>>

\* fn p(a: int, b: int) -> int { if a == 0 { return b; }; return p(a - 1, b + a); };
\* fn q(c: int) { this d = p(c, 1); print(d + c); }; q(k);
Accumulate(k) ==
    <<Tok("Func"), TIdentifier("p"), Tok("LeftParen"), TIdentifier("a"), Tok("Colon"),
      TIdentifier("int"), Tok("Comma"),
          TIdentifier("b"), Tok("Colon"), TIdentifier("int"), Tok("RightParen"),
      Tok("Arrow"), TIdentifier("int"), Tok("LeftBracket"),
      Tok("If"), TIdentifier("a"), Tok("CompareEqual"), TInteger(0), Tok("LeftBracket"),
          Tok("Return"), TIdentifier("b"), Tok("SemiColon"), Tok("RightBracket"),
          Tok("SemiColon"),
      Tok("Return"), TIdentifier("p"), Tok("LeftParen"), TIdentifier("a"), Tok("Minus"),
      TInteger(1), Tok("Comma"), TIdentifier("b"), Tok("Plus"), TIdentifier("a"),
      Tok("RightParen"), Tok("SemiColon"),
      Tok("RightBracket"), Tok("SemiColon"),
      Tok("Func"), TIdentifier("q"), Tok("LeftParen"), TIdentifier("c"), Tok("Colon"),
      TIdentifier("int"), Tok("RightParen"), Tok("LeftBracket"),
          Tok("This"), TIdentifier("d"), Tok("Equal"), TIdentifier("p"), Tok("LeftParen"),
          TIdentifier("c"), Tok("Comma"), TInteger(1), Tok("RightParen"), Tok("SemiColon"),
          Tok("Print"), Tok("LeftParen"), TIdentifier("d"), Tok("Plus"), TIdentifier("c"),
          Tok("RightParen"), Tok("SemiColon"),
      Tok("RightBracket"), Tok("SemiColon"),
      TIdentifier("q"), Tok("LeftParen"), TInteger(k), Tok("RightParen"), Tok("SemiColon")>>

\* fn g() { print(y); }; fn f() { this y = 5; g(); }; f();
OuterFrameLocal ==
    <<Tok("Func"), TIdentifier("g"), Tok("LeftParen"), Tok("RightParen"), Tok("LeftBracket"),
          Tok("Print"), Tok("LeftParen"), TIdentifier("y"), Tok("RightParen"), Tok("SemiColon"),
      Tok("RightBracket"), Tok("SemiColon"),
      Tok("Func"), TIdentifier("f"), Tok("LeftParen"), Tok("RightParen"), Tok("LeftBracket"),
          Tok("This"), TIdentifier("y"), Tok("Equal"), TInteger(5), Tok("SemiColon"),
          TIdentifier("g"), Tok("LeftParen"), Tok("RightParen"), Tok("SemiColon"),
      Tok("RightBracket"), Tok("SemiColon"),
      TIdentifier("f"), Tok("LeftParen"), Tok("RightParen"), Tok("SemiColon")>>

\* print(7); if a <cmp> b { print(1); } [else { print(2); }]; print(9);
IfProgram(a, b, cmp, has_else) ==
    <<Tok("Print"), Tok("LeftParen"), TInteger(7), Tok("RightParen"), Tok("SemiColon"),
      Tok("If"), TInteger(a), Tok(cmp), TInteger(b), Tok("LeftBracket"),
          Tok("Print"), Tok("LeftParen"), TInteger(1), Tok("RightParen"), Tok("SemiColon"),
          Tok("RightBracket")>>
    \o (IF has_else
        THEN <<Tok("Else"), Tok("LeftBracket"), Tok("Print"), Tok("LeftParen"), TInteger(2),
        Tok("RightParen"), Tok("SemiColon"), Tok("RightBracket")>>
        ELSE <<>>)
    \o <<Tok("SemiColon"), Tok("Print"), Tok("LeftParen"), TInteger(9), Tok("RightParen"),
    Tok("SemiColon")>>

\* this c = a; if c == b { if c =! 0 { print(3); } else { c = 4; }; print(1); }
\* else { print(2); }; print(c);
NestedIfProgram(a, b) ==
    <<Tok("This"), TIdentifier("c"), Tok("Equal"), TInteger(a), Tok("SemiColon"),
      Tok("If"), TIdentifier("c"), Tok("CompareEqual"), TInteger(b), Tok("LeftBracket"),
          Tok("If"), TIdentifier("c"), Tok("CompareNotEqual"), TInteger(0), Tok("LeftBracket"),
              Tok("Print"), Tok("LeftParen"), TInteger(3), Tok("RightParen"),
              Tok("SemiColon"), Tok("RightBracket"),
          Tok("Else"), Tok("LeftBracket"), TIdentifier("c"), Tok("Equal"), TInteger(4),
          Tok("SemiColon"), Tok("RightBracket"), Tok("SemiColon"),
          Tok("Print"), Tok("LeftParen"), TInteger(1), Tok("RightParen"), Tok("SemiColon"),
          Tok("RightBracket"),
      Tok("Else"), Tok("LeftBracket"), Tok("Print"), Tok("LeftParen"), TInteger(2),
      Tok("RightParen"), Tok("SemiColon"), Tok("RightBracket"), Tok("SemiColon"),
      Tok("Print"), Tok("LeftParen"), TIdentifier("c"), Tok("RightParen"), Tok("SemiColon")>>

\* this a = 7; this b = 2; print(a * b - a / b + 1);
ArithmeticProgram ==
    <<Tok("This"), TIdentifier("a"), Tok("Equal"), TInteger(7), Tok("SemiColon"),
      Tok("This"), TIdentifier("b"), Tok("Equal"), TInteger(2), Tok("SemiColon"),
      Tok("Print"), Tok("LeftParen"), TIdentifier("a"), Tok("Multiply"), TIdentifier("b"),
      Tok("Minus"),
          TIdentifier("a"), Tok("Divide"), TIdentifier("b"), Tok("Plus"), TInteger(1),
          Tok("RightParen"), Tok("SemiColon")>>

\* this x = 3 + 5 * 4;
PrecedenceProgram ==
    <<Tok("This"), TIdentifier("x"), Tok("Equal"), TInteger(3), Tok("Plus"), TInteger(5),
      Tok("Multiply"), TInteger(4), Tok("SemiColon")>>

\* this x = (3 + 5) * 4;
ParenthesisProgram ==
    <<Tok("This"), TIdentifier("x"), Tok("Equal"), Tok("LeftParen"), TInteger(3),
      Tok("Plus"), TInteger(5), Tok("RightParen"),
      Tok("Multiply"), TInteger(4), Tok("SemiColon")>>

\* this x = 5 / 0;
DivideByZeroProgram ==
    <<Tok("This"), TIdentifier("x"), Tok("Equal"), TInteger(5), Tok("Divide"), TInteger(0),
      Tok("SemiColon")>>

\* this x = <i64::MAX> + 1;
OverflowProgram ==
    <<Tok("This"), TIdentifier("x"), Tok("Equal"), TInteger(MaxInt), Tok("Plus"),
      TInteger(1), Tok("SemiColon")>>

Comparators == {"CompareEqual", "CompareNotEqual"}

Sources ==
    {Countdown(k) : k \in 0..MaxK}
    \cup {NonTailRecursion(k) : k \in 0..MaxK}
    \cup {Accumulate(k) : k \in 0..MaxK}
    \cup {IfProgram(a, b, cmp, e) : a \in 0..1, b \in 0..1, cmp \in Comparators, e \in BOOLEAN}
    \cup {NestedIfProgram(a, b) : a \in 0..1, b \in 0..1}
    \cup {GlobalShadowsLocal, LocalRead, OuterFrameLocal, ArithmeticProgram,
          PrecedenceProgram, ParenthesisProgram, DivideByZeroProgram, OverflowProgram}

\* one token of every kind
Alphabet ==
    <<TIdentifier("x"), TIdentifier("int"), TInteger(1), Tok("Minus"), Tok("Plus"),
      Tok("Divide"),
      Tok("Multiply"), Tok("CompareEqual"), Tok("CompareNotEqual"), Tok("Equal"),
      Tok("Return"), Tok("If"),
      Tok("Else"), Tok("Func"), Tok("Print"), Tok("This"), Tok("LeftParen"),
      Tok("RightParen"), Tok("LeftBracket"), Tok("RightBracket"), Tok("Colon"),
      Tok("Comma"), Tok("SemiColon"),
      Tok("Arrow")>>

OperatorTokens == <<Tok("Plus"), Tok("Minus"), Tok("Multiply"), Tok("Divide")>>

RECURSIVE ChainTail(_, _)
\* op1 2 op2 3 ... : the i-th operator of ops followed by the literal i + 1
ChainTail(ops, i) ==
    IF i > Len(ops) THEN <<>>
    ELSE <<OperatorTokens[ops[i]], TInteger(i + 1)>> \o ChainTail(ops, i + 1)

\* this x = 1 op1 2 op2 3 ... ;
ChainProgram(ops) ==
    <<Tok("This"), TIdentifier("x"), Tok("Equal"), TInteger(1)>> \o ChainTail(ops,
      1) \o <<Tok("SemiColon")>>

OperatorChains == UNION {[1..n -> 1..4] : n \in 1..MaxOps}

MutationSeeds ==
    {Countdown(1), IfProgram(1, 1, "CompareEqual", TRUE), LocalRead, ArithmeticProgram,
     ParenthesisProgram}

Mutations(s) ==
    {SubSeq(s, 1, n) : n \in 0..Len(s)}
    \cup {SubSeq(s, 1, i - 1) \o SubSeq(s, i + 1, Len(s)) : i \in 1..Len(s)}
    \cup {[s EXCEPT ![i] = Alphabet[j]] : i \in 1..Len(s), j \in 1..Len(Alphabet)}

ParserInputs ==
    {ChainProgram(ops) : ops \in OperatorChains}
    \cup UNION {Mutations(s) : s \in MutationSeeds}

\* expressions over i64 literals, a declared global x, an undeclared u and a call
Literals == {0, 1, 0 - 1, MaxInt, MinInt}
Operators == {"Add", "Subtract", "Multiply", "Divide"}
Leaves ==
    {Integer(n) : n \in Literals}
    \cup {Identifier("x"), Identifier("u"), FunctionCall("f", <<>>)}
Binary(L, R) == {ArithmeticExpression(l, o, r) : l \in L, o \in Operators, r \in R}
\* the operands the folding rules single out, and one that folds to none of them
Units == {Integer(0), Integer(1), Identifier("x")}
Expressions ==
    Leaves \cup Binary(Leaves, Leaves)
    \cup Binary(Binary(Leaves, Leaves), Units) \cup Binary(Units, Binary(Leaves, Leaves))

\* fn f() -> int { print(7); return 3; }; this x = 2; print(e);
ExpressionProgram(e) ==
    <<FunctionDeclaration("f", <<>>, Some("Int"),
                          Block(<<StatementPrint(Integer(7))>>, Some(Integer(3)))),
      VariableDeclaration("x", Integer(2)),
      StatementPrint(e)>>

\* instruction sequences handed directly to VirtualMachine::new
RawOpCodes(n) ==
    {PUSH(0), PUSH(1), Op("PRINT"), Op("ADD"), Op("DIV"), Op("EQUAL"), STORE("x"), LOAD("x"),
     DECLARE("f"), CALL("f"), TailCall("f"), Op("RET"), Op("ENTER"), Op("EXIT")}
    \cup {JUMP(a) : a \in 1..n} \cup {JmpIfFalse(a) : a \in 1..n}
ForwardJumps(code) ==
    \A i \in 1..Len(code) :
        code[i].op \in {"JUMP", "JmpIfFalse"} => code[i].address >= i
RawPrograms ==
    UNION {{code \in [1..n -> RawOpCodes(n)] : ForwardJumps(code)} : n \in 1..MaxRawLen}

-----------------------------------------------------------------------------
(* The specification *)

\* VirtualMachine::new
NewVirtualMachine ==
    /\ stack = <<>>
    /\ variables = EmptyMap
    /\ instruction_pointer = 0
    /\ call_stack = <<>>
    /\ stack_frames = <<>>
    /\ functions = EmptyMap
    /\ output = <<>>
    /\ history = [calls |-> 0, rets |-> 0, tail_calls |-> 0, trace |-> <<>>,
                  args |-> <<>>, callers |-> <<>>, conds |-> EmptyMap]

\* main(): the whole pipeline on a source
InitMain ==
    /\ entry = "main" /\ pc = "parse"
    /\ tokens \in Sources
    /\ ast = None /\ instructions = <<>>

\* Parser::new(tokens).parse() alone
InitParser ==
    /\ entry = "parse" /\ pc = "parse"
    /\ tokens \in ParserInputs
    /\ ast = None /\ instructions = <<>>

\* Optimizer::optimize_ast on a syntax tree, then generation and execution
InitOptimizer ==
    /\ entry = "optimize" /\ pc = "optimize"
    /\ tokens = <<>>
    /\ ast \in {Some(ExpressionProgram(e)) : e \in Expressions}
    /\ instructions = <<>>

\* VirtualMachine::new(instructions).run() alone
InitVirtualMachine ==
    /\ entry = "vm" /\ pc = "run"
    /\ tokens = <<>> /\ ast = None
    /\ instructions \in RawPrograms

Init ==
    /\ overflow_checks \in BOOLEAN
    /\ optimized = None
    /\ failure = None
    /\ NewVirtualMachine
    /\ (InitMain \/ InitParser \/ InitOptimizer \/ InitVirtualMachine)

Next ==
    \/ ParseStep
    \/ OptimizeStep
    \/ GenerateStep
    \/ ExecPUSH
    \/ ExecPRINT
    \/ ExecADD
    \/ ExecSUB
    \/ ExecMUL
    \/ ExecDIV
    \/ ExecSTORE
    \/ ExecLOAD
    \/ ExecDECLARE
    \/ ExecCALL
    \/ ExecTailCall
    \/ ExecRET
    \/ ExecENTER
    \/ ExecEXIT
    \/ ExecJUMP
    \/ ExecJmpIfFalse
    \/ ExecEQUAL
    \/ ExecNotEqual
    \/ RunReturns

Spec == Init /\ [][Next]_vars

\* the runs of whole programs: main() on each source, and the VM on each
\* single instruction
InitPrograms ==
    /\ overflow_checks \in BOOLEAN
    /\ optimized = None
    /\ failure = None
    /\ NewVirtualMachine
    /\ \/ InitMain
       \/ /\ entry = "vm" /\ pc = "run"
          /\ tokens = <<>> /\ ast = None
          /\ instructions \in {<<op>> : op \in RawOpCodes(1)}
\* one turn of the loop of run, or its end
Execute ==
    \/ ExecPUSH \/ ExecPRINT \/ ExecADD \/ ExecSUB \/ ExecMUL \/ ExecDIV
    \/ ExecSTORE \/ ExecLOAD \/ ExecDECLARE \/ ExecCALL \/ ExecTailCall \/ ExecRET
    \/ ExecENTER \/ ExecEXIT \/ ExecJUMP \/ ExecJmpIfFalse \/ ExecEQUAL \/ ExecNotEqual
    \/ RunReturns
\* run is a loop with no suspension point: a turn that can be taken is taken
FairSpec == InitPrograms /\ [][Next]_vars /\ WF_vars(Execute)

-----------------------------------------------------------------------------
(* Properties *)

\* the instruction indices the VM has executed so far
Executed == {history.trace[q] : q \in DOMAIN history.trace}
\* the index of the instruction executed last
LastExecuted == history.trace[Len(history.trace)]
\* the VM exists: the pipeline has reached VirtualMachine::run
InVirtualMachine == pc \in {"run", "done"} \/ (pc = "aborted" /\ instructions # <<>>)

(* C1 *)
CountdownRun == entry = "main" /\ tokens \in {Countdown(k) : k \in 0..MaxK}
\* the top-level CALL f is the last instruction the generator emits for Countdown(k)
CountdownCallIndex ==
    CHOOSE i \in 0..(Len(instructions) - 1) : instructions[i + 1].op = "CALL"
CountdownReturned ==
    /\ CountdownRun
    /\ history.calls = 1
    /\ history.rets = 1
    /\ instruction_pointer = CountdownCallIndex + 1
    /\ stack_frames = <<>>
    /\ pc \in {"run", "done"}

\* C1: in the run of the self-tail-recursive countdown f(k), for every k in
\* 0..MaxK, the frame stack never holds more than one frame, every TailCall
\* leaves the number of frames and the innermost frame's return address as
\* they were, and the run eventually stands at the instruction after the
\* top-level CALL with the frame stack empty.
C1_TailRecursionStaysAtDepthOne ==
    /\ [](CountdownRun => Len(stack_frames) <= 1)
    /\ [][(CountdownRun /\ ExecTailCall) =>
             /\ stack_frames # <<>>
             /\ pc' = "run"
             /\ Len(stack_frames') = Len(stack_frames)
             /\ Top(stack_frames').return_address = Top(stack_frames).return_address]_vars
    /\ ((CountdownRun /\ pc = "run") ~> CountdownReturned)

\* the countdown from MaxK has made its MaxK tail calls and has returned
C1_Witness ==
    /\ tokens = Countdown(MaxK)
    /\ history.tail_calls = MaxK
    /\ CountdownReturned
    /\ pc = "done"

(* C2 *)
\* the locals of the innermost frame, empty when there is no frame
InnermostLocals ==
    IF stack_frames = <<>> THEN EmptyMap ELSE Top(stack_frames).local_variables

\* C2: every LOAD(name) pushes the global table's value of name when the
\* global table has one, whatever the innermost frame holds; it pushes the
\* innermost frame's local only when the global table has none; and when
\* neither has the name it halts, whatever the frames below hold.
C2_LoadReadsGlobalFirst ==
    [][ExecLOAD =>
          LET name == get_current_opcode.name IN
          IF name \in DOMAIN variables
          THEN pc' = "run" /\ stack' = Append(stack, variables[name])
          ELSE IF name \in DOMAIN InnermostLocals
          THEN pc' = "run" /\ stack' = Append(stack, InnermostLocals[name])
          ELSE pc' = "aborted" /\ stack' = stack]_vars

\* LOAD x has just run with global x = 1 and local x = 2 in the active frame
\* and has pushed 1
C2_Witness ==
    /\ pc = "run"
    /\ history.trace # <<>>
    /\ instructions[LastExecuted + 1] = LOAD("x")
    /\ stack_frames # <<>>
    /\ "x" \in DOMAIN variables
    /\ "x" \in DOMAIN InnermostLocals
    /\ variables["x"] = 1
    /\ InnermostLocals["x"] = 2
    /\ stack # <<>>
    /\ Top(stack) = 1

(* C3 *)
IfSources ==
    {IfProgram(a, b, cmp, e) : a \in 0..1, b \in 0..1, cmp \in Comparators, e \in BOOLEAN}
    \cup {NestedIfProgram(a, b) : a \in 0..1, b \in 0..1}
IfRun == entry = "main" /\ tokens \in IfSources
\* for the JmpIfFalse at index j: the first index of the else part, and the
\* first index after the whole construct (the target of the JUMP that ends
\* the then part)
ElseStart(j) == instructions[j + 1].address
ConstructEnd(j) == instructions[ElseStart(j)].address
\* index i lies in a branch of an if-statement nested at or after index from
Nested(from, i) ==
    \E j \in from..(i - 1) :
        instructions[j + 1].op = "JmpIfFalse" /\ i < ConstructEnd(j)
Reached(i) ==
    i \in Executed \/ (i = Len(instructions) /\ instruction_pointer = i)
\* what print(7); if a cmp b { print(1); } [else { print(2); }]; print(9); prints
IfProgramOutput(a, b, cmp, has_else) ==
    <<PrintedValue(7)>>
    \o (IF (cmp = "CompareEqual") = (a = b) THEN <<PrintedValue(1)>>
        ELSE IF has_else THEN <<PrintedValue(2)>> ELSE <<>>)
    \o <<PrintedValue(9)>>

\* C3: a run of a compiled program whose if-statements hold no return never
\* halts abnormally, and when it has ended, for every JmpIfFalse it executed:
\* on a nonzero condition every instruction of the then part was executed
\* (but for the branches of nested ifs) and none of the else part; on zero
\* none of the then part and every one of the else part; either way the
\* first instruction after the construct was reached, no instruction ran
\* twice, and the one-statement branches printed exactly their own line.
C3_IfExecutesExactlyOneBranch ==
    IfRun =>
        /\ pc \notin {"aborted", "parse_error"}
        /\ pc = "done" =>
            /\ \A q \in 1..(Len(history.trace) - 1) :
                   history.trace[q] < history.trace[q + 1]
            /\ \A j \in DOMAIN history.conds :
                   /\ instructions[j + 1].op = "JmpIfFalse"
                   /\ instructions[ElseStart(j)].op = "JUMP"
                   /\ j < ElseStart(j) /\ ElseStart(j) <= ConstructEnd(j)
                   /\ IF history.conds[j] # 0
                      THEN /\ \A i \in (j + 1)..(ElseStart(j) - 1) :
                                  i \in Executed \/ Nested(j + 1, i)
                           /\ \A i \in ElseStart(j)..(ConstructEnd(j) - 1) :
                                  i \notin Executed
                      ELSE /\ \A i \in (j + 1)..(ElseStart(j) - 1) : i \notin Executed
                           /\ \A i \in ElseStart(j)..(ConstructEnd(j) - 1) :
                                  i \in Executed \/ Nested(ElseStart(j), i)
                   /\ Reached(ConstructEnd(j))
            /\ \A a \in 0..1, b \in 0..1, cmp \in Comparators, e \in BOOLEAN :
                   tokens = IfProgram(a, b, cmp, e) => output = IfProgramOutput(a, b, cmp, e)

\* an if without else on a false condition has run to its end: the condition
\* popped was 0 and nothing but the lines around the construct was printed
C3_Witness ==
    /\ entry = "main"
    /\ tokens = IfProgram(0, 1, "CompareEqual", FALSE)
    /\ pc = "done"
    /\ \E j \in DOMAIN history.conds : history.conds[j] = 0
    /\ output = <<PrintedValue(7), PrintedValue(9)>>

(* C4 *)
\* The reference grammar, written as two loops rather than by precedence
\* climbing:  sum := product (("+" | "-") product)*,
\*            product := term (("*" | "/") term)*,  term := integer.
RefResult(pos, val) == [pos |-> pos, val |-> val]
RefOperator(token) ==
    CASE token.t = "Plus" -> "Add"
      [] token.t = "Minus" -> "Subtract"
      [] token.t = "Multiply" -> "Multiply"
      [] token.t = "Divide" -> "Divide"
RECURSIVE RefProductLoop(_, _, _)
RefProductLoop(toks, pos, left) ==
    IF peek(toks, pos).t \in {"Multiply", "Divide"}
    THEN RefProductLoop(toks, pos + 2,
             ArithmeticExpression(left, RefOperator(peek(toks, pos)),
                                  Integer(peek(toks, pos + 1).v)))
    ELSE RefResult(pos, left)
RefProduct(toks, pos) == RefProductLoop(toks, pos + 1, Integer(peek(toks, pos).v))
RECURSIVE RefSumLoop(_, _, _)
RefSumLoop(toks, pos, left) ==
    IF peek(toks, pos).t \in {"Plus", "Minus"}
    THEN RefSumLoop(toks, RefProduct(toks, pos + 1).pos,
             ArithmeticExpression(left, RefOperator(peek(toks, pos)),
                                  RefProduct(toks, pos + 1).val))
    ELSE RefResult(pos, left)
RefSum(toks, pos) == RefSumLoop(toks, RefProduct(toks, pos).pos, RefProduct(toks, pos).val)

ChainRun == entry = "parse" /\ tokens \in {ChainProgram(ops) : ops \in OperatorChains}
\* the three expressions the specification spells out
ThreePlusFiveTimesFour ==
    <<TInteger(3), Tok("Plus"), TInteger(5), Tok("Multiply"), TInteger(4)>>
EightMinusThreeMinusTwo ==
    <<TInteger(8), Tok("Minus"), TInteger(3), Tok("Minus"), TInteger(2)>>
TwoTimesThreePlusFour ==
    <<TInteger(2), Tok("Multiply"), TInteger(3), Tok("Plus"), TInteger(4)>>

\* C4: on every token sequence `this x = 1 op 2 op ... ;` of up to MaxOps
\* operators, parse_expression started at the first term returns the tree of
\* the reference grammar and stops at the semicolon, having consumed every
\* term and operator; Parser::parse returns the declaration of x with that
\* tree; and 3 + 5 * 4, 8 - 3 - 2, 2 * 3 + 4 parse as 3 + (5 * 4), (8 - 3) - 2,
\* (2 * 3) + 4.
C4_PrecedenceAndLeftAssociativity ==
    /\ ChainRun =>
          /\ parse_expression(tokens, 3, 4) = Ok(Len(tokens) - 1, RefSum(tokens, 3).val)
          /\ RefSum(tokens, 3).pos = Len(tokens) - 1
          /\ pc # "parse" =>
                 /\ pc = "done"
                 /\ ast = Some(<<VariableDeclaration("x", RefSum(tokens, 3).val)>>)
    /\ (entry = "parse" /\ pc = "parse") =>
          /\ parse_expression(ThreePlusFiveTimesFour, 0, 1) =
                 Ok(5, ArithmeticExpression(
                           Integer(3), "Add",
                           ArithmeticExpression(Integer(5), "Multiply", Integer(4))))
          /\ parse_expression(EightMinusThreeMinusTwo, 0, 1) =
                 Ok(5, ArithmeticExpression(
                           ArithmeticExpression(Integer(8), "Subtract", Integer(3)),
                           "Subtract", Integer(2)))
          /\ parse_expression(TwoTimesThreePlusFour, 0, 1) =
                 Ok(5, ArithmeticExpression(
                           ArithmeticExpression(Integer(2), "Multiply", Integer(3)),
                           "Add", Integer(4)))

\* 1 + 2 * 3 - 4 has been parsed: the product is the right operand of the sum,
\* and the sum is the left operand of the difference
C4_Witness ==
    /\ entry = "parse"
    /\ pc = "done"
    /\ tokens = ChainProgram(<<1, 3, 2>>)
    /\ ast = Some(<<VariableDeclaration("x",
                 ArithmeticExpression(
                     ArithmeticExpression(
                         Integer(1), "Add",
                         ArithmeticExpression(Integer(2), "Multiply", Integer(3))),
                     "Subtract", Integer(4)))>>)

(* C5 *)
ThreePlusFiveInParentheses ==
    <<Tok("LeftParen"), TInteger(3), Tok("Plus"), TInteger(5), Tok("RightParen")>>
ThreePlusFive == ArithmeticExpression(Integer(3), "Add", Integer(5))

\* C5: parse_term on `( 3 + 5 )` returns 3 + 5 with the position past both
\* parentheses, and main() on `this x = (3 + 5) * 4;` parses it to the
\* declaration of x as (3 + 5) * 4, which the optimizer turns into the
\* declaration of x as the literal 32.
C5_ParenthesisedTermParses ==
    /\ (entry = "main" /\ pc = "parse") =>
           parse_term(ThreePlusFiveInParentheses, 0, 1) = Ok(5, ThreePlusFive)
    /\ (entry = "main" /\ tokens = ParenthesisProgram /\ pc # "parse") =>
           /\ pc \notin {"parse_error", "aborted"}
           /\ ast = Some(<<VariableDeclaration("x",
                        ArithmeticExpression(ThreePlusFive, "Multiply", Integer(4)))>>)
           /\ optimized # None => optimized = Some(<<VariableDeclaration("x", Integer(32))>>)

(* C6 *)
\* the expression handed to the optimizer inside ExpressionProgram, and what
\* the optimizer made of it
FoldInput == ast[1][3].expr
FoldOutput == optimized[1][3].expr
FoldRun ==
    /\ entry = "optimize"
    /\ optimized # None
    /\ FoldInput.k = "ArithmeticExpression"
FoldedForm(e) == constant_fold(e).val
FoldsToLiteral(e, n) == constant_fold(e) = Value(Integer(n))
FoldsToNonLiteral(e) == constant_fold(e).kind = "ok" /\ ~IsInteger(FoldedForm(e))

\* C6: whenever the optimizer returns on l op r: if one operand folds to the
\* literal 0 (for +) or 1 (for * ) and the other, y, folds to something that
\* is no literal, the result is the folded form of y; if one operand of *
\* folds to 0 the result is the literal 0 whatever the other is; and y - 0,
\* 0 - y, y / 1, 1 / y with such a y stay arithmetic nodes over the folded
\* operands.
C6_IdentityFolding ==
    FoldRun =>
        LET l == FoldInput.left
            r == FoldInput.right
            operator == FoldInput.operator
        IN /\ (operator = "Add" /\ FoldsToLiteral(l, 0) /\ FoldsToNonLiteral(r)) =>
                  FoldOutput = FoldedForm(r)
           /\ (operator = "Add" /\ FoldsToNonLiteral(l) /\ FoldsToLiteral(r, 0)) =>
                  FoldOutput = FoldedForm(l)
           /\ (operator = "Multiply" /\ FoldsToLiteral(l, 1) /\ FoldsToNonLiteral(r)) =>
                  FoldOutput = FoldedForm(r)
           /\ (operator = "Multiply" /\ FoldsToNonLiteral(l) /\ FoldsToLiteral(r, 1)) =>
                  FoldOutput = FoldedForm(l)
           /\ (operator = "Multiply" /\ (FoldsToLiteral(l, 0) \/ FoldsToLiteral(r, 0))) =>
                  FoldOutput = Integer(0)
           /\ (operator = "Subtract" /\ FoldsToNonLiteral(l) /\ FoldsToLiteral(r, 0)) =>
                  FoldOutput = ArithmeticExpression(FoldedForm(l), "Subtract", Integer(0))
           /\ (operator = "Subtract" /\ FoldsToLiteral(l, 0) /\ FoldsToNonLiteral(r)) =>
                  FoldOutput = ArithmeticExpression(Integer(0), "Subtract", FoldedForm(r))
           /\ (operator = "Divide" /\ FoldsToNonLiteral(l) /\ FoldsToLiteral(r, 1)) =>
                  FoldOutput = ArithmeticExpression(FoldedForm(l), "Divide", Integer(1))
           /\ (operator = "Divide" /\ FoldsToLiteral(l, 1) /\ FoldsToNonLiteral(r)) =>
                  FoldOutput = ArithmeticExpression(Integer(1), "Divide", FoldedForm(r))

\* the optimizer has turned 0 + (x * 1) into x
C6_Witness ==
    /\ FoldRun
    /\ FoldInput =
           ArithmeticExpression(
               Integer(0), "Add",
               ArithmeticExpression(Identifier("x"), "Multiply", Integer(1)))
    /\ FoldOutput = Identifier("x")

(* C7 *)
DivisionByLiteralZero ==
    /\ entry = "optimize"
    /\ FoldInput.k = "ArithmeticExpression"
    /\ FoldInput.operator = "Divide"
    /\ FoldInput.right = Integer(0)

\* C7: for every l, the optimizer returns on l / 0, and what it returns is
\* the Divide node over the folded l and the literal 0; the run of the
\* generated code does not end normally, and where it halts it stands at a
\* DIV whose divisor was 0.
C7_DivisionByZeroIsDeferred ==
    DivisionByLiteralZero =>
        /\ pc # "optimize" =>
               /\ optimized # None
               /\ FoldOutput =
                      ArithmeticExpression(FoldedForm(FoldInput.left), "Divide", Integer(0))
        /\ pc # "done"
        /\ (pc = "aborted" /\ instructions # <<>>) =>
               /\ instructions[instruction_pointer + 1].op = "DIV"
               /\ failure = Some(<<"attempt to divide by zero">>)

(* C8 *)
OrdinaryCallsOnly == \A i \in DOMAIN instructions : instructions[i].op # "TailCall"
GeneratedRun == entry \in {"main", "optimize"} /\ InVirtualMachine

\* C8: in every run of generated code without TailCall the number of frames
\* equals, in every state, the CALLs executed minus the RETs executed, so it
\* is zero when as many RETs as CALLs have run; and the run of g(k), whose
\* calls nest k + 1 deep, never halts abnormally, holds k + 1 frames when
\* its first RET is about to run, and ends with no frame after k + 1 CALLs
\* and k + 1 RETs.
C8_FrameDepthIsCallsMinusReturns ==
    /\ (GeneratedRun /\ OrdinaryCallsOnly) =>
           /\ Len(stack_frames) = history.calls - history.rets
           /\ history.calls = history.rets => stack_frames = <<>>
    /\ \A k \in 0..MaxK :
           (entry = "main" /\ tokens = NonTailRecursion(k)) =>
               /\ pc \notin {"parse_error", "aborted"}
               /\ (Executing("RET") /\ history.rets = 0) => Len(stack_frames) = k + 1
               /\ pc = "done" =>
                      /\ history.calls = k + 1
                      /\ history.rets = k + 1
                      /\ stack_frames = <<>>

\* the recursion g(MaxK) is at its deepest: MaxK + 1 calls, no return yet
C8_Witness ==
    /\ entry = "main"
    /\ tokens = NonTailRecursion(MaxK)
    /\ history.calls = MaxK + 1
    /\ history.rets = 0
    /\ Len(stack_frames) = MaxK + 1

(* C9 *)
\* C9: Parser::parse returns on every token sequence: once it has been
\* called, there is a Program or an error value, and the process has not
\* been brought down.
C9_ParseAlwaysReturns ==
    (entry = "parse" /\ pc # "parse") =>
        \/ pc = "done" /\ ast # None
        \/ pc = "parse_error" /\ failure # None

(* C10 *)
\* C10: Optimizer::optimize_ast returns on every syntax tree: once it has been
\* called there is an optimized Program, in a build with overflow checks and
\* in one without.
C10_OptimizerNeverFails ==
    (entry = "optimize" /\ pc # "optimize") => optimized # None

(* C11 *)
BinaryOpCodes == {"ADD", "SUB", "MUL", "DIV", "EQUAL", "NotEqual"}
\* the instruction about to run pops more than the operand stack holds
StackUnderflow ==
    \/ Running /\ get_current_opcode.op \in {"PRINT", "STORE", "JmpIfFalse"} /\ stack = <<>>
    \/ Running /\ get_current_opcode.op \in BinaryOpCodes /\ Len(stack) < 2
UndefinedVariable ==
    /\ Executing("LOAD")
    /\ get_current_opcode.name \notin DOMAIN variables
    /\ get_current_opcode.name \notin DOMAIN InnermostLocals
UndefinedFunction ==
    /\ Running /\ get_current_opcode.op \in {"CALL", "TailCall"}
    /\ get_current_opcode.name \notin DOMAIN functions
NoActiveFrame ==
    Running /\ get_current_opcode.op \in {"TailCall", "RET"} /\ stack_frames = <<>>
DivisionByZero == Executing("DIV") /\ Len(stack) >= 2 /\ Top(stack) = 0
FatalCondition ==
    StackUnderflow \/ UndefinedVariable \/ UndefinedFunction \/ NoActiveFrame
    \/ DivisionByZero

\* C11: a step taken on a stack underflow, a LOAD of a name in neither the
\* global table nor the innermost frame, a CALL or TailCall of a name not in
\* the function table, a TailCall or RET without a frame, or a DIV by 0,
\* ends in the halted state with the instruction pointer still on that
\* instruction; it writes no line, but for the frame message CALL and
\* TailCall write before they look the function up; and from the halted
\* state no step is taken: nothing is executed and nothing is printed.
C11_FatalConditionsHalt ==
    /\ [][FatalCondition =>
             /\ pc' = "aborted"
             /\ failure' # None
             /\ instruction_pointer' = instruction_pointer
             /\ IF UndefinedFunction /\ ~NoActiveFrame
                THEN Len(output') = Len(output) + 1
                     /\ output'[Len(output')].line # "value"
                ELSE output' = output]_vars
    /\ [][pc = "aborted" => UNCHANGED vars]_vars

\* CALL f ran before the DECLARE f that follows it: the VM has halted on the
\* undefined function, having executed that one instruction only
C11_Witness ==
    /\ entry = "vm"
    /\ instructions = <<CALL("f"), DECLARE("f")>>
    /\ pc = "aborted"
    /\ failure = Some(<<"Undefined function name", "f">>)
    /\ history.trace = <<0>>
    /\ functions = EmptyMap

(* C12 *)
\* how many instructions the generator emits for a statement list, a block
\* and a condition
CodeSize(statements) == Len(generate_statements(NewCodeGenerator, statements).opcode_list)
BlockSize(block) == Len(generate_block(NewCodeGenerator, block).opcode_list)
ConditionSize(condition) == Len(generate_condition(NewCodeGenerator, condition).opcode_list)
JumpIndices(code) == {i \in 0..(Len(code) - 1) : code[i + 1].op \in {"JUMP", "JmpIfFalse"}}

RECURSIVE JumpsResolved(_, _, _)
\* in code, where the instructions of statements start at index at: after the
\* condition of every if-statement stands a JmpIfFalse to the index after the
\* JUMP that ends the then part, and that JUMP goes to the index after the
\* whole statement; so too in the branches and in function bodies
JumpsResolved(code, statements, at) ==
    IF statements = <<>> THEN TRUE
    ELSE LET s == Head(statements)
             size == CodeSize(<<s>>)
         IN /\ CASE s.k = "IfStatement" ->
                        LET j == at + ConditionSize(s.condition)
                            jump == j + 1 + BlockSize(s.then_block)
                        IN /\ code[j + 1] = JmpIfFalse(jump + 1)
                           /\ code[jump + 1] = JUMP(at + size)
                           /\ JumpsResolved(code, s.then_block.statements, j + 1)
                           /\ s.else_block # None =>
                                  JumpsResolved(code, s.else_block[1].statements, jump + 1)
                 [] s.k = "FunctionDeclaration" ->
                        JumpsResolved(code, s.body.statements, at + 2 + Len(s.parameters))
                 [] OTHER -> TRUE
            /\ JumpsResolved(code, Tail(statements), at + size)

\* C12: on every Program handed to it, generate returns (no "Unresolved
\* label" and no other panic), every label it created has a position, the
\* list of pending jumps is empty, there are as many jumps as labels, and
\* every JmpIfFalse and JUMP holds the index the structure of its
\* if-statement gives; the VM is started on exactly that sequence.
C12_AllJumpsResolved ==
    /\ (pc = "generate") =>
           LET r == generate(optimized[1]) IN
           /\ r.kind = "ok"
           /\ r.val.unresolved_jumps = <<>>
           /\ DOMAIN r.val.label_positions = 0..(r.val.label_counter - 1)
           /\ Cardinality(JumpIndices(r.val.opcode_list)) = r.val.label_counter
           /\ JumpsResolved(r.val.opcode_list, optimized[1], 0)
    /\ (entry \in {"main", "optimize"} /\ optimized # None /\ pc # "generate") =>
           /\ InVirtualMachine
           /\ instructions = generate(optimized[1]).val.opcode_list

\* the nested if-statements have been compiled: four jumps, all in place
C12_Witness ==
    /\ entry = "main"
    /\ tokens = NestedIfProgram(1, 1)
    /\ pc = "run"
    /\ history.trace = <<>>
    /\ Cardinality(JumpIndices(instructions)) = 4
    /\ JumpsResolved(instructions, optimized[1], 0)

(* C13 *)
\* C13: a STORE(name) that finds a value on the operand stack pops that one
\* value; with a frame active it puts it under name in the innermost frame's
\* locals and leaves the global table, the frames below and the innermost
\* frame's return address as they were; with no frame active it puts it under
\* name in the global table.  And no step taken while a frame is active
\* changes the global table.
C13_StoreWritesInnermostFrameOrGlobals ==
    /\ [][(ExecSTORE /\ stack # <<>>) =>
             LET name == get_current_opcode.name
                 n == Len(stack_frames)
             IN /\ pc' = "run"
                /\ stack' = Pop(stack)
                /\ IF n > 0
                   THEN /\ variables' = variables
                        /\ Len(stack_frames') = n
                        /\ \A i \in 1..(n - 1) : stack_frames'[i] = stack_frames[i]
                        /\ stack_frames'[n].return_address = stack_frames[n].return_address
                        /\ stack_frames'[n].local_variables =
                               Insert(stack_frames[n].local_variables, name, Top(stack))
                   ELSE /\ stack_frames' = <<>>
                        /\ variables' = Insert(variables, name, Top(stack))]_vars
    /\ [][stack_frames # <<>> => variables' = variables]_vars

\* inside f, `this x = 2` has just been stored while the global x is 1: the
\* frame's x is 2 and the global x is still 1
C13_Witness ==
    /\ entry = "main"
    /\ tokens = GlobalShadowsLocal
    /\ pc = "run"
    /\ history.trace # <<>>
    /\ instructions[LastExecuted + 1] = STORE("x")
    /\ stack_frames # <<>>
    /\ "x" \in DOMAIN InnermostLocals
    /\ InnermostLocals["x"] = 2
    /\ variables = [v \in {"x"} |-> 1]

(* C14 *)
\* C14: a CALL(name) at index c whose name is in the function table pushes
\* exactly one frame, with empty locals and return address c + 1, and leaves
\* the instruction pointer at the function table's address for name, so that
\* in generated code the instruction to run next is the function's ENTER.
C14_CallEntersAtEntryMarker ==
    [][(ExecCALL /\ get_current_opcode.name \in DOMAIN functions) =>
          /\ pc' = "run"
          /\ stack_frames' = Append(stack_frames, Frame(EmptyMap, instruction_pointer + 1))
          /\ instruction_pointer' = functions[get_current_opcode.name]
          /\ entry \in {"main", "optimize"} =>
                 instructions[instruction_pointer' + 1].op = "ENTER"]_vars

(* C15 *)
\* the compiled program declares all its functions at the top level
Program == optimized[1]
\* the index at which the instructions of the i-th top-level statement start
StatementStart(i) == CodeSize(SubSeq(Program, 1, i - 1))
\* the top-level function declaration whose DECLARE stands at index d
DeclarationAt(d) ==
    {i \in DOMAIN Program :
        Program[i].k = "FunctionDeclaration" /\ StatementStart(i) = d}

\* C15: in a run of generated code, a DECLARE(name) at index d executed with
\* no frame active is the DECLARE of one top-level function declaration; it
\* maps name to d + 1 in the function table (the ENTER), leaves the
\* instruction pointer right after the EXIT that ends that declaration's
\* code, executes nothing else, and leaves the operand stack, the frame
\* stack, the global table and the output as they were.
C15_DeclareSkipsItsFunction ==
    [][(ExecDECLARE /\ entry \in {"main", "optimize"} /\ stack_frames = <<>>) =>
          LET d == instruction_pointer
              name == get_current_opcode.name
          IN /\ Cardinality(DeclarationAt(d)) = 1
             /\ \A i \in DeclarationAt(d) :
                    /\ Program[i].name = name
                    /\ instruction_pointer' = d + CodeSize(<<Program[i]>>)
                    /\ instructions[instruction_pointer'].op = "EXIT"
                    /\ \A q \in (d + 1)..(instruction_pointer' - 2) :
                           instructions[q + 1].op # "EXIT"
             /\ instructions[d + 2].op = "ENTER"
             /\ functions' = Insert(functions, name, d + 1)
             /\ history'.trace = Append(history.trace, d)
             /\ pc' = "run"
             /\ UNCHANGED <<stack, stack_frames, variables, output>>]_vars

\* the second declaration of OuterFrameLocal has been executed: both g and f
\* are in the function table, nothing else has run, and the instruction
\* pointer stands on the top-level call, the last instruction
C15_Witness ==
    /\ entry = "main"
    /\ tokens = OuterFrameLocal
    /\ pc = "run"
    /\ DOMAIN functions = {"f", "g"}
    /\ Len(history.trace) = 2
    /\ instructions[LastExecuted + 1] = DECLARE("f")
    /\ functions["f"] = LastExecuted + 1
    /\ instruction_pointer = Len(instructions) - 1
    /\ stack = <<>> /\ stack_frames = <<>> /\ variables = EmptyMap /\ output = <<>>

(* C16 *)
\* the top-level statement i of the compiled program declares a function
\* with parameters, and the last of its parameter STOREs has just run
BoundParameters(i) ==
    /\ pc = "run"
    /\ Program[i].k = "FunctionDeclaration"
    /\ Program[i].parameters # <<>>
    /\ history.trace # <<>>
    /\ LastExecuted = StatementStart(i) + 1 + Len(Program[i].parameters)
    /\ instruction_pointer = LastExecuted + 1
\* the locals of p in Accumulate(k) after t tail calls
AccumulateLocals(k, t) ==
    [v \in {"a", "b"} |-> IF v = "a" THEN k - t ELSE 1 + t * k - (t * (t - 1)) \div 2]

\* C16: in a run of a compiled program whose calls pass as many arguments as
\* the function has parameters, when the parameter STOREs at a function's
\* entry have run, however it was entered (CALL or TailCall): the operand
\* stack is what it was below the n values the argument expressions had
\* pushed when the call executed, and the innermost frame's locals are
\* exactly the parameters, the j-th bound to the j-th of those values.  So
\* h(5, 3) binds a = 5, b = 3, and p(a - 1, b + a) binds a and b to the
\* values a - 1 and b + a had in the caller.
C16_ParametersBindPositionally ==
    (entry = "main" /\ InVirtualMachine) =>
        /\ \A i \in DOMAIN Program :
               BoundParameters(i) =>
                   LET parameters == Program[i].parameters
                       n == Len(parameters)
                       base == Len(history.args) - n
                   IN /\ base >= 0
                      /\ stack = SubSeq(history.args, 1, base)
                      /\ stack_frames # <<>>
                      /\ DOMAIN InnermostLocals = {parameters[j] : j \in 1..n}
                      /\ \A j \in 1..n :
                             InnermostLocals[parameters[j]] = history.args[base + j]
        /\ (tokens = LocalRead /\ BoundParameters(1)) =>
               InnermostLocals = [v \in {"a", "b"} |-> IF v = "a" THEN 5 ELSE 3]
        /\ \A k \in 0..MaxK :
               (tokens = Accumulate(k) /\ BoundParameters(1)) =>
                   /\ stack = <<>>
                   /\ Len(stack_frames) = 2
                   /\ InnermostLocals = AccumulateLocals(k, history.tail_calls)

\* p(c, 1), called from q(MaxK), has made its first tail call p(a - 1, b + a) and has bound the
\* parameters again: a = MaxK - 1, b = 1 + MaxK
C16_Witness ==
    /\ entry = "main"
    /\ tokens = Accumulate(MaxK)
    /\ BoundParameters(1)
    /\ history.tail_calls = 1
    /\ history.args = <<MaxK - 1, 1 + MaxK>>
    /\ InnermostLocals = [v \in {"a", "b"} |-> IF v = "a" THEN MaxK - 1 ELSE 1 + MaxK]

(* C17 *)
\* the machine at the end of the run of the code generated from
\* fn f() -> int { print(7); return 3; }; this x = 2; print(e);
RunOf(e) == run(Machine(generate(ExpressionProgram(e)).val.opcode_list))
\* the run of the action model has ended where the function run ends
RunAgrees ==
    LET m == run(Machine(instructions)) IN
    /\ pc = "aborted" <=> m.failure # None
    /\ failure = m.failure
    /\ stack = m.stack
    /\ variables = m.variables
    /\ instruction_pointer = m.instruction_pointer
    /\ stack_frames = m.stack_frames
    /\ functions = m.functions
    /\ output = m.output
VirtualMachineModelsAgree ==
    (InVirtualMachine /\ ~Running /\ Len(stack_frames) < MaxFrames) => RunAgrees

\* C17: for every expression e on which constant_fold returns, with the
\* global x = 2, no u, and f a function that prints 7 and returns 3: the run
\* of the code generated from print(constant_fold(e)) and the run of the code
\* generated from print(e) both halt abnormally, or both end normally with
\* the same operand stack and the same printed lines.
C17_FoldingPreservesBehaviour ==
    (entry = "optimize" /\ pc = "optimize" /\ constant_fold(FoldInput).kind = "ok") =>
        LET plain == RunOf(FoldInput)
            folded == RunOf(FoldedForm(FoldInput))
        IN \/ plain.failure # None /\ folded.failure # None
           \/ /\ plain.failure = None /\ folded.failure = None
              /\ plain.stack = folded.stack
              /\ plain.output = folded.output

(* C18 *)
\* the run stands between two top-level statements (or after the last): no
\* call is in progress and the instruction pointer is where the instructions
\* of a top-level statement start, or at the end of the sequence
BetweenStatements ==
    /\ pc \in {"run", "done"}
    /\ stack_frames = <<>>
    /\ \E i \in 1..(Len(Program) + 1) : instruction_pointer = StatementStart(i)

\* C18: in a run of a compiled program, whenever the run stands between two
\* top-level statements, every call having returned, the operand stack is
\* empty.
C18_StackEmptyBetweenStatements ==
    (entry \in {"main", "optimize"} /\ InVirtualMachine /\ BetweenStatements) =>
        stack = <<>>

(* C19 *)
\* the compiled program contains no function call: no CALL and no TailCall
NoFunctionCall ==
    \A i \in DOMAIN instructions : instructions[i].op \notin {"CALL", "TailCall"}

\* C19: in every generated instruction sequence each JUMP and JmpIfFalse
\* targets an index greater than its own and at most the length of the
\* sequence; and in the run of a generated sequence without CALL and
\* TailCall every executed instruction either halts the run or leaves the
\* instruction pointer greater than it was, the indices executed so far are
\* strictly increasing, and so no more instructions are executed than the
\* sequence holds.
C19_JumpsGoForward ==
    /\ [](GeneratedRun =>
             /\ \A i \in JumpIndices(instructions) :
                    /\ i < instructions[i + 1].address
                    /\ instructions[i + 1].address <= Len(instructions)
             /\ NoFunctionCall =>
                    /\ \A q \in 1..(Len(history.trace) - 1) :
                           history.trace[q] < history.trace[q + 1]
                    /\ Len(history.trace) <= Len(instructions)
                    /\ instruction_pointer <= Len(instructions))
    /\ [][(GeneratedRun /\ NoFunctionCall /\ Running) =>
             \/ pc' = "aborted" /\ instruction_pointer' = instruction_pointer
             \/ pc' = "run" /\ instruction_pointer' > instruction_pointer]_vars

\* the nested if-statements have run to the end: both conditions were true,
\* two else parts were jumped over, and fewer instructions were executed than
\* the sequence holds
C19_Witness ==
    /\ entry = "main"
    /\ tokens = NestedIfProgram(1, 1)
    /\ pc = "done"
    /\ NoFunctionCall
    /\ Cardinality(DOMAIN history.conds) = 2
    /\ Len(history.trace) < Len(instructions)
    /\ instruction_pointer = Len(instructions)

(* C20 *)
\* history.callers holds, for every active frame, the frame stack as it was
\* when the CALL at index `at` pushed that frame

\* C20: in every state, below each active frame lie exactly the frames that
\* were there when the CALL that pushed it executed, locals and return
\* addresses unchanged, and the frame still returns to the instruction after
\* that CALL, whatever STOREs, CALLs and TailCalls have run since; no step
\* changes a frame below the innermost one; and the RET that pops a frame
\* leaves the frame stack exactly as it was when the CALL executed and the
\* instruction pointer at the instruction after the CALL.
C20_CalleeCannotAlterCaller ==
    /\ [](/\ Len(history.callers) = Len(stack_frames)
          /\ \A i \in DOMAIN stack_frames :
                 /\ history.callers[i].frames = SubSeq(stack_frames, 1, i - 1)
                 /\ stack_frames[i].return_address = history.callers[i].at + 1)
    /\ [][\A i \in 1..(Len(stack_frames) - 1) :
              i <= Len(stack_frames') /\ stack_frames'[i] = stack_frames[i]]_vars
    /\ [][(ExecRET /\ stack_frames # <<>>) =>
             /\ pc' = "run"
             /\ stack_frames' = Top(history.callers).frames
             /\ instruction_pointer' = Top(history.callers).at + 1
             /\ instructions[instruction_pointer'].op = "CALL"]_vars

\* p, called from q(MaxK) with c = MaxK in q's frame, has stored its
\* parameters MaxK + 1 times and made MaxK tail calls, and its RET has just
\* returned into q: q's frame is the only one, and holds c = MaxK alone
C20_Witness ==
    /\ entry = "main"
    /\ tokens = Accumulate(MaxK)
    /\ pc = "run"
    /\ history.tail_calls = MaxK
    /\ history.rets = 1
    /\ instructions[LastExecuted + 1].op = "RET"
    /\ Len(stack_frames) = 1
    /\ InnermostLocals = [v \in {"c"} |-> MaxK]
    /\ instructions[instruction_pointer] = CALL("p")

(* C21 *)
RECURSIVE Foldable(_)
\* the tree e holds, outside the arguments of function calls, a node that a
\* folding rule rewrites: an arithmetic node over two integer literals other
\* than a division by the literal 0, or one of 0 + y, y + 0, 1 * y, y * 1,
\* 0 * y, y * 0
Foldable(e) ==
    /\ e.k = "ArithmeticExpression"
    /\ \/ /\ IsInteger(e.left) /\ IsInteger(e.right)
          /\ ~(e.operator = "Divide" /\ e.right.v = 0)
       \/ e.operator = "Add" /\ (IsLiteral(e.left, 0) \/ IsLiteral(e.right, 0))
       \/ /\ e.operator = "Multiply"
          /\ \/ IsLiteral(e.left, 0) \/ IsLiteral(e.right, 0)
             \/ IsLiteral(e.left, 1) \/ IsLiteral(e.right, 1)
       \/ Foldable(e.left)
       \/ Foldable(e.right)
\* constant_fold returns on e, and what it returns it leaves as it is and
\* holds nothing left to fold
FoldsToFixedPoint(e) ==
    /\ constant_fold(e).kind = "ok"
    /\ constant_fold(FoldedForm(e)) = constant_fold(e)
    /\ ~Foldable(FoldedForm(e))
\* the same, for the expressions on which constant_fold returns
FoldIsIdempotentWhereItReturns ==
    (entry = "optimize" /\ pc = "optimize" /\ constant_fold(FoldInput).kind = "ok") =>
        FoldsToFixedPoint(FoldInput)

\* C21: for every expression e, in a build with overflow checks and in one
\* without, constant_fold returns on e, folding the result again returns the
\* same tree, and the result holds, outside function-call arguments, no
\* arithmetic node over two integer literals other than a division by the
\* literal 0 and no node 0 + y, y + 0, 1 * y, y * 1, 0 * y or y * 0.
C21_FoldIsIdempotent ==
    (entry = "optimize" /\ pc = "optimize") => FoldsToFixedPoint(FoldInput)

====
